---- MODULE Spec2Model ----
(***************************************************************************)
(* Model of the two-peer last-writer-wins key-value store with Merkle      *)
(* anti-entropy (kv_store.hpp, anti_entropy/*, node.hpp).                   *)
(*                                                                         *)
(* Strings are sequences of one-character strings, so that the leaf hash   *)
(* can concatenate and truncate them as the code does.  A 32-byte block    *)
(* (merkle::Hash used as input of the compression) is written as the       *)
(* sequence of its bytes without the trailing zero padding, so the         *)
(* default-constructed all-zero merkle::Hash() is the empty sequence.      *)
(* sha256_compress is idealised as a collision-free constructor.           *)
(*                                                                         *)
(* A std::unordered_map is a sequence of entries in iteration order.  The  *)
(* order is the one libstdc++ produces for keys that fall in distinct      *)
(* buckets: a new key is linked at the front of the element list, an       *)
(* assignment to an existing key keeps its place, erase keeps the order of *)
(* the others.                                                             *)
(***************************************************************************)
EXTENDS Integers, Sequences, FiniteSets, TLC

Nodes == {"A", "B"}

Peer(n) == IF n = "A" THEN "B" ELSE "A"

\* threads of one node: the io_context thread that runs the sessions, and
\* the anti-entropy thread
Threads == {"io", "ae"}

Keys == {<<"a">>, <<"b">>}

Values == {<<>>, <<"1">>}

\* largest timestamp a direct call of the store API is given
MaxTime == 2

\* longest key list handed to get_paths / find_differences
MaxQuery == 2

Times == 0..MaxTime

-----------------------------------------------------------------------------
(* std::unordered_map<std::string, ...> *)

find(m, k) ==
    IF \E i \in 1..Len(m) : m[i].key = k
    THEN CHOOSE i \in 1..Len(m) : m[i].key = k
    ELSE 0

contains(m, k) == find(m, k) # 0

erase(m, i) == SubSeq(m, 1, i - 1) \o SubSeq(m, i + 1, Len(m))

\* m[k] = e  (operator[] followed by assignment)
assign(m, k, e) ==
    IF contains(m, k)
    THEN [m EXCEPT ![find(m, k)] = e]
    ELSE <<e>> \o m

keys_of(m) == {m[i].key : i \in 1..Len(m)}

-----------------------------------------------------------------------------
(* KeyValueStore *)

ValueWithTimestamp(k, v, t) == [key |-> k, value |-> v, timestamp |-> t]

set_accepts_strict(m, k, t) ==
    \/ ~contains(m, k)
    \/ t > m[find(m, k)].timestamp

\* a set that lets the last writer win whatever its timestamp
set_accepts_last_writer(m, k, t) == TRUE

\* the condition of KeyValueStore::set
set_accepts(m, k, t) ==
    \/ ~contains(m, k)
    \/ t >= m[find(m, k)].timestamp

set_store_keeps_timestamp(m, k, v, t) ==
    IF set_accepts(m, k, t)
    THEN assign(m, k, ValueWithTimestamp(k, v,
                    IF contains(m, k) THEN m[find(m, k)].timestamp ELSE t))
    ELSE m

set_store_unconditional(m, k, v, t) ==
    assign(m, k, ValueWithTimestamp(k, v, t))

\* store_ after KeyValueStore::set
set_store(m, k, v, t) ==
    IF set_accepts(m, k, t)
    THEN assign(m, k, ValueWithTimestamp(k, v, t))
    ELSE m

del_accepts_any_timestamp(m, k, t) == contains(m, k)

\* the condition of KeyValueStore::del
del_accepts(m, k, t) ==
    /\ contains(m, k)
    /\ t >= m[find(m, k)].timestamp

\* store_ after a del that leaves a marker with its timestamp behind
del_store_leaves_marker(m, k, t) ==
    IF del_accepts(m, k, t)
    THEN assign(m, k, ValueWithTimestamp(k, <<>>, t))
    ELSE m

\* store_ after KeyValueStore::del
del_store(m, k, t) ==
    IF del_accepts(m, k, t)
    THEN erase(m, find(m, k))
    ELSE m

get(m, k) == IF contains(m, k) THEN m[find(m, k)].value ELSE <<>>

get_value_with_timestamp(m, k) ==
    IF contains(m, k)
    THEN m[find(m, k)]
    ELSE ValueWithTimestamp(k, <<>>, 0)

get_all_keys_with_timestamps(m) ==
    [i \in 1..Len(m) |-> [key |-> m[i].key, timestamp |-> m[i].timestamp]]

RECURSIVE copy_into(_, _)
copy_into(result, m) ==
    IF m = <<>>
    THEN result
    ELSE copy_into(assign(result, Head(m).key, Head(m)), Tail(m))

\* a fresh unordered_map filled by iterating store_
get_all_key_value_data(m) == copy_into(<<>>, m)

-----------------------------------------------------------------------------
(* merkle::Hash, merkle::Tree, merkle::Path *)

HashSize == 32

ZeroHash == <<>>

sha256_compress(l, r) == <<"sha256", l, r>>

Digit(d) == <<"0", "1", "2", "3", "4", "5", "6", "7", "8", "9">>[d + 1]

RECURSIVE Decimal(_)
Decimal(t) ==
    IF t < 10 THEN <<Digit(t)>> ELSE Decimal(t \div 10) \o <<Digit(t % 10)>>

Take(s, n) == IF Len(s) <= n THEN s ELSE SubSeq(s, 1, n)

hash_key_value(key, value, timestamp) ==
    LET combined == key \o <<":">> \o value \o <<":">> \o Decimal(timestamp)
    IN  sha256_compress(Take(combined, HashSize), ZeroHash)

RECURSIVE SplitPoint(_)
\* the largest power of two strictly below n (n >= 2)
SplitPoint(n) == IF n <= 2 THEN 1 ELSE 2 * SplitPoint((n + 1) \div 2)

RECURSIVE TreeRoot(_)
TreeRoot(leaves) ==
    IF Len(leaves) = 1
    THEN leaves[1]
    ELSE LET s == SplitPoint(Len(leaves))
         IN  sha256_compress(TreeRoot(SubSeq(leaves, 1, s)),
                             TreeRoot(SubSeq(leaves, s + 1, Len(leaves))))

RECURSIVE PathElements(_, _)
\* sibling hashes of leaf i (1-based) from the leaf up to the root
PathElements(leaves, i) ==
    IF Len(leaves) = 1
    THEN <<>>
    ELSE LET s == SplitPoint(Len(leaves))
             l == SubSeq(leaves, 1, s)
             r == SubSeq(leaves, s + 1, Len(leaves))
         IN  IF i <= s
             THEN PathElements(l, i) \o <<[hash |-> TreeRoot(r), side |-> "right"]>>
             ELSE PathElements(r, i - s) \o <<[hash |-> TreeRoot(l), side |-> "left"]>>

\* what stands for the path of a call that threw
InvalidPath == [leaf |-> <<"invalid leaf index">>, elements |-> <<>>]

\* merkle::Tree::path(index), index counted from 0; an index outside the
\* tree makes the library throw
TreePath(leaves, index) ==
    IF index < Len(leaves)
    THEN [leaf |-> leaves[index + 1], elements |-> PathElements(leaves, index + 1)]
    ELSE InvalidPath

RECURSIVE PathRoot(_, _)
PathRoot(h, elements) ==
    IF elements = <<>>
    THEN h
    ELSE LET e == Head(elements)
         IN  PathRoot(IF e.side = "left"
                      THEN sha256_compress(e.hash, h)
                      ELSE sha256_compress(h, e.hash),
                      Tail(elements))

\* merkle::Path::verify(root)
PathVerify(path, root) == PathRoot(path.leaf, path.elements) = root

-----------------------------------------------------------------------------
(* MerkleTreeIndex *)

rebuild_tree_unhashed_ts(kv_data) ==
    [i \in 1..Len(kv_data) |->
        hash_key_value(kv_data[i].key, kv_data[i].value, 0)]

\* merkle_tree after MerkleTreeIndex::rebuild(kv_data): one leaf per entry
rebuild_tree(kv_data) ==
    [i \in 1..Len(kv_data) |->
        hash_key_value(kv_data[i].key, kv_data[i].value, kv_data[i].timestamp)]

rebuild_key_to_index_from_one(kv_data) ==
    [k \in keys_of(kv_data) |-> find(kv_data, k)]

\* key_to_index after MerkleTreeIndex::rebuild(kv_data): index++ from 0
rebuild_key_to_index(kv_data) ==
    [k \in keys_of(kv_data) |-> find(kv_data, k) - 1]

get_root_hash_hashed_empty(tree) ==
    IF tree = <<>> THEN sha256_compress(ZeroHash, ZeroHash) ELSE TreeRoot(tree)

get_root_hash(tree) == IF tree = <<>> THEN ZeroHash ELSE TreeRoot(tree)

RECURSIVE get_paths(_, _, _)
\* MerkleTreeIndex::get_paths: one path per key found in key_to_index
get_paths(tree, kti, keys) ==
    IF tree = <<>> \/ keys = <<>>
    THEN <<>>
    ELSE (IF Head(keys) \in DOMAIN kti
          THEN <<TreePath(tree, kti[Head(keys)])>>
          ELSE <<>>) \o get_paths(tree, kti, Tail(keys))

Min(a, b) == IF a <= b THEN a ELSE b

RECURSIVE failing_keys(_, _, _, _)
\* the loop of find_differences over positions i..n
failing_keys(local_root, remote_paths, keys, i) ==
    IF i > Len(remote_paths)
    THEN <<>>
    ELSE (IF ~PathVerify(remote_paths[i], local_root) /\ i <= Len(keys)
          THEN <<keys[i]>>
          ELSE <<>>) \o failing_keys(local_root, remote_paths, keys, i + 1)

\* MerkleTreeIndex::find_differences as defined in merkle_tree_index.hpp
find_differences(tree, remote_paths, keys) ==
    IF tree # <<>>
    THEN failing_keys(TreeRoot(tree),
                      SubSeq(remote_paths, 1, Min(Len(remote_paths), Len(keys))),
                      keys, 1)
    ELSE <<>>

\* MerkleTreeIndex::find_differences as defined in merkle_tree_index.cpp
find_differences_cpp(tree, remote_paths, keys) ==
    IF tree = <<>>
    THEN keys
    ELSE failing_keys(TreeRoot(tree), remote_paths, keys, 1)

size(tree) == Len(tree)

empty(tree) == tree = <<>>

-----------------------------------------------------------------------------
(* State *)

VARIABLES
    store_,         \* store_[n]: KeyValueStore::store_ of node n
    mutex_,         \* mutex_[n]: "free" or the thread that owns KeyValueStore::mutex_
    merkle_index,   \* merkle_index[n]: an index is attached to the store of n
    merkle_tree,    \* merkle_tree[n]: the leaves of MerkleTreeIndex::merkle_tree
    key_to_index,   \* key_to_index[n]: MerkleTreeIndex::key_to_index
    tree_mutex,     \* tree_mutex[n]: "free" or the thread that owns MerkleTreeIndex::tree_mutex
    rebuilding,     \* rebuilding[n]: where MerkleTreeIndex::rebuild is, and its locals
    last,           \* the most recent call of the store / index API and its result
    now,            \* std::chrono::system_clock of the host, in milliseconds
    pc,             \* pc[n]: where the anti-entropy thread of n is in its cycle
    ae,             \* ae[n]: the local variables of the cycle of n
    tasks,          \* the detached threads of Node::propagate_update
    cycle,          \* cycle[n]: what happened since the last cycle of n began
    writes,         \* number of client commands served so far
    cycles          \* number of anti-entropy cycles begun so far

storeVars == <<store_, mutex_, merkle_index, merkle_tree, key_to_index,
               tree_mutex, rebuilding>>

sysVars == <<now, pc, ae, tasks, cycle, writes, cycles>>

vars == <<store_, mutex_, merkle_index, merkle_tree, key_to_index,
          tree_mutex, rebuilding, last,
          now, pc, ae, tasks, cycle, writes, cycles>>

NoCall == [op |-> "none"]

\* no call of rebuild is under way; built is the argument of the last call
\* that returned
Idle(built) == [at |-> "idle", kv_data |-> <<>>, index |-> 0, built |-> built]

\* nobody holds tree_mutex, the index is as its last rebuild left it
IndexAtRest ==
    /\ tree_mutex = [n \in Nodes |-> "free"]
    /\ rebuilding = [n \in Nodes |-> Idle(get_all_key_value_data(store_[n]))]

indexLock == <<tree_mutex, rebuilding>>

\* no connection: nothing was written to it, no session reads from it
NoSocket ==
    [session |-> "none", written |-> <<>>, dispatched |-> <<>>, response |-> <<>>]

\* the locals of a cycle that has not started
NoLocals ==
    [local_root |-> <<>>, key_list |-> <<>>, local_keys |-> <<>>,
     peer_paths |-> <<>>, work |-> <<>>, value |-> <<>>, socket |-> NoSocket]

\* no thread but main exists, nothing was served
InitThreads ==
    /\ now = 0
    /\ pc = [n \in Nodes |-> "sleep"]
    /\ ae = [n \in Nodes |-> NoLocals]
    /\ tasks = {}
    /\ cycle = [n \in Nodes |-> "none"]
    /\ writes = 0
    /\ cycles = 0

Init ==
    /\ store_ = [n \in Nodes |-> <<>>]
    /\ mutex_ = [n \in Nodes |-> "free"]
    /\ IndexAtRest
    /\ merkle_index = [n \in Nodes |-> FALSE]
    /\ merkle_tree = [n \in Nodes |-> <<>>]
    /\ key_to_index = [n \in Nodes |-> <<>>]
    /\ last = NoCall
    /\ InitThreads

-----------------------------------------------------------------------------
(* Direct calls of the store and index API *)

IsReplay(n, k, v, t) ==
    /\ last.op = "set"
    /\ last.node = n /\ last.key = k /\ last.value = v /\ last.timestamp = t
    /\ last.accepted

\* KeyValueStore::set up to the call of rebuild; a rejected call, and a call
\* on a store without index, returns here
Set(n, thr, k, v, t) ==
    /\ mutex_[n] = "free"
    /\ store_' = [store_ EXCEPT ![n] = set_store(@, k, v, t)]
    /\ mutex_' = [mutex_ EXCEPT ![n] =
                    IF set_accepts(store_[n], k, t) /\ merkle_index[n]
                    THEN thr ELSE "free"]
    /\ last' = [op |-> "set", node |-> n, key |-> k, value |-> v,
                timestamp |-> t, accepted |-> set_accepts(store_[n], k, t),
                replay |-> IsReplay(n, k, v, t),
                deleted_at |-> IF /\ last.op = "del" /\ last.accepted
                                     /\ last.node = n /\ last.key = k
                                  THEN {last.timestamp}
                                  ELSE {}]
    /\ UNCHANGED <<merkle_index, merkle_tree, key_to_index, indexLock>>
    /\ UNCHANGED sysVars

\* KeyValueStore::del up to the call of rebuild
Del(n, thr, k, t) ==
    /\ mutex_[n] = "free"
    /\ store_' = [store_ EXCEPT ![n] = del_store(@, k, t)]
    /\ mutex_' = [mutex_ EXCEPT ![n] =
                    IF del_accepts(store_[n], k, t) /\ merkle_index[n]
                    THEN thr ELSE "free"]
    /\ last' = [op |-> "del", node |-> n, key |-> k, timestamp |-> t,
                accepted |-> del_accepts(store_[n], k, t)]
    /\ UNCHANGED <<merkle_index, merkle_tree, key_to_index, indexLock>>
    /\ UNCHANGED sysVars

\* KeyValueStore::set_merkle_index up to the call of rebuild
SetMerkleIndex(n, thr) ==
    /\ mutex_[n] = "free"
    /\ ~merkle_index[n]
    /\ merkle_index' = [merkle_index EXCEPT ![n] = TRUE]
    /\ mutex_' = [mutex_ EXCEPT ![n] = thr]
    /\ last' = [op |-> "set_merkle_index", node |-> n]
    /\ UNCHANGED <<store_, merkle_tree, key_to_index, indexLock>>
    /\ UNCHANGED sysVars

\* merkle_index->rebuild(get_all_key_value_data()) and the return of the
\* caller, which releases mutex_
Rebuild(n) ==
    /\ mutex_[n] # "free"
    /\ merkle_tree' = [merkle_tree EXCEPT ![n] =
                          rebuild_tree(get_all_key_value_data(store_[n]))]
    /\ key_to_index' = [key_to_index EXCEPT ![n] =
                          rebuild_key_to_index(get_all_key_value_data(store_[n]))]
    /\ rebuilding' = [rebuilding EXCEPT ![n] =
                          Idle(get_all_key_value_data(store_[n]))]
    /\ mutex_' = [mutex_ EXCEPT ![n] = "free"]
    /\ UNCHANGED <<store_, merkle_index, last, tree_mutex>>
    /\ UNCHANGED sysVars

RECURSIVE SeqsUpTo(_, _)
SeqsUpTo(S, n) ==
    IF n = 0
    THEN {<<>>}
    ELSE LET shorter == SeqsUpTo(S, n - 1)
         IN  shorter \cup {<<x>> \o s : x \in S, s \in {q \in shorter : Len(q) = n - 1}}

KeyLists == SeqsUpTo(Keys, MaxQuery)

\* the index of n is asked for the paths of keys
GetPaths(n, keys) ==
    /\ merkle_index[n]
    /\ last' = [op |-> "get_paths", node |-> n, keys |-> keys,
                known |-> DOMAIN key_to_index[n],
                root |-> get_root_hash(merkle_tree[n]),
                paths |-> get_paths(merkle_tree[n], key_to_index[n], keys)]
    /\ UNCHANGED storeVars
    /\ UNCHANGED sysVars

\* the index of n compares the paths its peer returns for keys
FindDifferences(n, keys) ==
    /\ merkle_index[n] /\ merkle_index[Peer(n)]
    /\ LET remote_paths ==
               get_paths(merkle_tree[Peer(n)], key_to_index[Peer(n)], keys)
       IN  last' = [op |-> "find_differences", node |-> n, keys |-> keys,
                    remote_paths |-> remote_paths,
                    differing_keys |->
                        find_differences(merkle_tree[n], remote_paths, keys),
                    differing_keys_cpp |->
                        find_differences_cpp(merkle_tree[n], remote_paths, keys)]
    /\ UNCHANGED storeVars
    /\ UNCHANGED sysVars

\* the direct calls act on one store and its index
StoreNode == "A"

\* the node whose anti-entropy thread runs
Initiator == "A"

NextStore ==
    \/ \E thr \in Threads, k \in Keys, v \in Values, t \in Times :
          Set(StoreNode, thr, k, v, t)
    \/ \E thr \in Threads, k \in Keys, t \in Times :
          Del(StoreNode, thr, k, t)
    \/ \E thr \in Threads : SetMerkleIndex(StoreNode, thr)
    \/ Rebuild(StoreNode)
    \/ \E keys \in KeyLists : GetPaths(StoreNode, keys)

SpecStore == Init /\ [][NextStore]_vars

-----------------------------------------------------------------------------
(* MerkleTreeIndex::rebuild statement by statement, and the other calls of *)
(* the index made meanwhile by the threads that hold neither mutex         *)

\* rebuild(kv_data) is called by the thread that holds mutex_ and takes
\* tree_mutex
RebuildLock(n) ==
    /\ mutex_[n] # "free"
    /\ rebuilding[n].at = "idle"
    /\ tree_mutex[n] = "free"
    /\ tree_mutex' = [tree_mutex EXCEPT ![n] = mutex_[n]]
    /\ rebuilding' = [rebuilding EXCEPT ![n] =
          [@ EXCEPT !.at = "clear_tree",
                    !.kv_data = get_all_key_value_data(store_[n]),
                    !.index = 0]]
    /\ UNCHANGED <<store_, mutex_, merkle_index, merkle_tree, key_to_index, last>>
    /\ UNCHANGED sysVars

\* merkle_tree = merkle::Tree()
ClearTree(n) ==
    /\ rebuilding[n].at = "clear_tree"
    /\ merkle_tree' = [merkle_tree EXCEPT ![n] = <<>>]
    /\ rebuilding' = [rebuilding EXCEPT ![n].at = "clear_index"]
    /\ UNCHANGED <<store_, mutex_, merkle_index, key_to_index, tree_mutex, last>>
    /\ UNCHANGED sysVars

\* the loop over kv_data goes on with the next entry, or ends
NextEntry(r, index) ==
    [r EXCEPT !.at = IF index < Len(r.kv_data) THEN "insert" ELSE "unlock",
              !.index = index]

\* key_to_index.clear()
ClearKeys(n) ==
    /\ rebuilding[n].at = "clear_index"
    /\ key_to_index' = [key_to_index EXCEPT ![n] = <<>>]
    /\ rebuilding' = [rebuilding EXCEPT ![n] = NextEntry(@, 0)]
    /\ UNCHANGED <<store_, mutex_, merkle_index, merkle_tree, tree_mutex, last>>
    /\ UNCHANGED sysVars

\* merkle_tree.insert(hash_key_value(key, value, timestamp))
InsertLeaf(n) ==
    /\ rebuilding[n].at = "insert"
    /\ LET e == rebuilding[n].kv_data[rebuilding[n].index + 1]
       IN  merkle_tree' = [merkle_tree EXCEPT ![n] =
              Append(@, hash_key_value(e.key, e.value, e.timestamp))]
    /\ rebuilding' = [rebuilding EXCEPT ![n].at = "assign"]
    /\ UNCHANGED <<store_, mutex_, merkle_index, key_to_index, tree_mutex, last>>
    /\ UNCHANGED sysVars

\* key_to_index[key] = index++
AssignIndex(n) ==
    /\ rebuilding[n].at = "assign"
    /\ LET index == rebuilding[n].index
           key   == rebuilding[n].kv_data[index + 1].key
       IN  /\ key_to_index' = [key_to_index EXCEPT ![n] =
                  [k \in DOMAIN @ \cup {key} |-> IF k = key THEN index ELSE @[k]]]
           /\ rebuilding' = [rebuilding EXCEPT ![n] = NextEntry(@, index + 1)]
    /\ UNCHANGED <<store_, mutex_, merkle_index, merkle_tree, tree_mutex, last>>
    /\ UNCHANGED sysVars

\* rebuild returns and releases tree_mutex, its caller returns and releases
\* mutex_
RebuildReturn(n) ==
    /\ rebuilding[n].at = "unlock"
    /\ tree_mutex' = [tree_mutex EXCEPT ![n] = "free"]
    /\ mutex_' = [mutex_ EXCEPT ![n] = "free"]
    /\ rebuilding' = [rebuilding EXCEPT ![n] = Idle(@.kv_data)]
    /\ UNCHANGED <<store_, merkle_index, merkle_tree, key_to_index, last>>
    /\ UNCHANGED sysVars

\* the calls of the index that read it
IndexReads == {"get_root_hash", "get_paths", "find_differences", "size", "empty"}

\* the keys a reader asks about
AllKeys == <<<<"a">>, <<"b">>>>

\* what the call returns on the tree and the key index it finds
ReadResult(call, tree, kti) ==
    CASE call = "get_root_hash" -> get_root_hash(tree)
      [] call = "get_paths" -> get_paths(tree, kti, AllKeys)
      [] call = "find_differences" ->
             find_differences(tree, get_paths(tree, kti, AllKeys), AllKeys)
      [] call = "size" -> size(tree)
      [] call = "empty" -> empty(tree)

\* what thread thr finds when its call runs now
Found(n, thr, call) ==
    [op |-> call, node |-> n, thread |-> thr,
     tree |-> merkle_tree[n], key_to_index |-> key_to_index[n],
     result |-> ReadResult(call, merkle_tree[n], key_to_index[n]),
     built |-> rebuilding[n].built,
     store |-> store_[n], writing |-> mutex_[n] # "free"]

\* a reader that does not take tree_mutex
Read_unlocked(n, thr, call) ==
    /\ merkle_index[n]
    /\ thr # mutex_[n]
    /\ last' = Found(n, thr, call)
    /\ UNCHANGED storeVars
    /\ UNCHANGED sysVars

\* thread thr, which holds neither mutex, calls a reading function of the
\* index: std::lock_guard<std::mutex> guard(tree_mutex) for the whole call
Read(n, thr, call) ==
    /\ merkle_index[n]
    /\ thr # mutex_[n]
    /\ tree_mutex[n] = "free"
    /\ last' = Found(n, thr, call)
    /\ UNCHANGED storeVars
    /\ UNCHANGED sysVars

NextRebuild ==
    \/ \E thr \in Threads, k \in Keys, v \in Values, t \in Times :
          Set(StoreNode, thr, k, v, t)
    \/ \E thr \in Threads, k \in Keys, t \in Times :
          Del(StoreNode, thr, k, t)
    \/ \E thr \in Threads : SetMerkleIndex(StoreNode, thr)
    \/ RebuildLock(StoreNode)
    \/ ClearTree(StoreNode)
    \/ ClearKeys(StoreNode)
    \/ InsertLeaf(StoreNode)
    \/ AssignIndex(StoreNode)
    \/ RebuildReturn(StoreNode)
    \/ \E thr \in Threads, call \in IndexReads : Read(StoreNode, thr, call)

SpecRebuild == Init /\ [][NextRebuild]_vars

-----------------------------------------------------------------------------
(* find_differences applied to the indexes of two stores *)

RECURSIVE MapsOver(_)
\* every content and iteration order of a map over the keys of K
MapsOver(K) ==
    IF K = {}
    THEN {<<>>}
    ELSE UNION {
            {<<ValueWithTimestamp(k, v, t)>> \o m :
                 v \in Values, t \in Times, m \in MapsOver(K \ {k})} :
            k \in K}

StoreStates == UNION {MapsOver(K) : K \in SUBSET Keys}

InitIndex ==
    /\ store_ \in [Nodes -> StoreStates]
    /\ mutex_ = [n \in Nodes |-> "free"]
    /\ IndexAtRest
    /\ merkle_index = [n \in Nodes |-> TRUE]
    /\ merkle_tree =
          [n \in Nodes |-> rebuild_tree(get_all_key_value_data(store_[n]))]
    /\ key_to_index =
          [n \in Nodes |-> rebuild_key_to_index(get_all_key_value_data(store_[n]))]
    /\ last = NoCall
    /\ InitThreads

NextIndex == \E n \in Nodes, keys \in KeyLists : FindDifferences(n, keys)

SpecIndex == InitIndex /\ [][NextIndex]_vars

-----------------------------------------------------------------------------
(* Wire protocol *)

\* a word of the protocol, written as one symbol
Str(a) == <<a>>

IsWord(w) == w # <<>>

\* what operator>> extracts from a command: its blank-separated words.  A
\* command is the sequence of the strings that were joined with blanks; an
\* empty string between two blanks yields no word.
Words(command) == SelectSeq(command, IsWord)

\* position of the first c in s at or after start, 0 for npos
IndexOf(s, c, start) ==
    IF \E i \in start..Len(s) : s[i] = c
    THEN CHOOSE i \in start..Len(s) :
            s[i] = c /\ \A j \in start..(i - 1) : s[j] # c
    ELSE 0

IsDigit(c) == \E d \in 0..9 : Digit(d) = c

DigitValue(c) == CHOOSE d \in 0..9 : Digit(d) = c

RECURSIVE stoull_from(_, _, _)
stoull_from(s, i, acc) ==
    IF i <= Len(s) /\ IsDigit(s[i])
    THEN stoull_from(s, i + 1, acc * 10 + DigitValue(s[i]))
    ELSE acc

\* std::stoull: the number the leading digits spell; it throws without one
stoull_ok(s) == Len(s) >= 1 /\ IsDigit(s[1])

stoull(s) == stoull_from(s, 1, 0)

RECURSIVE format_keys_with_timestamps(_)
\* the GET_ALL response: key:timestamp; for every entry
format_keys_with_timestamps(keys) ==
    IF keys = <<>>
    THEN <<>>
    ELSE Head(keys).key \o <<":">> \o Decimal(Head(keys).timestamp) \o <<";">>
         \o format_keys_with_timestamps(Tail(keys))

RECURSIVE parse_from(_, _, _)
parse_from(data, start, out_map) ==
    IF start > Len(data)
    THEN out_map
    ELSE LET sep == IndexOf(data, ":", start)
         IN  IF sep = 0
             THEN out_map
             ELSE LET key    == SubSeq(data, start, sep - 1)
                      end    == IndexOf(data, ";", sep)
                      ts_str == IF end = 0
                                THEN SubSeq(data, sep + 1, Len(data))
                                ELSE SubSeq(data, sep + 1, end - 1)
                      out    == IF stoull_ok(ts_str)
                                THEN assign(out_map, key,
                                            [key |-> key, timestamp |-> stoull(ts_str)])
                                ELSE out_map
                  IN  IF end = 0 THEN out ELSE parse_from(data, end + 1, out)

\* parse_keys_with_timestamps reading a key out of no data
parse_keys_with_timestamps_phantom(data) ==
    IF data = <<>>
    THEN <<[key |-> <<>>, timestamp |-> 0]>>
    ELSE parse_from(data, 1, <<>>)

\* AntiEntropyManager::parse_keys_with_timestamps into an empty map
parse_keys_with_timestamps(data) == parse_from(data, 1, <<>>)

RECURSIVE join_keys(_)
\* the argument of GET_PATHS: every key followed by a semicolon
join_keys(keys) ==
    IF keys = <<>> THEN <<>> ELSE Head(keys) \o <<";">> \o join_keys(Tail(keys))

RECURSIVE split_keys(_, _)
\* the keys Node::process_command cuts out of the rest of a GET_PATHS line
split_keys(rest, start) ==
    IF start > Len(rest)
    THEN <<>>
    ELSE LET end == IndexOf(rest, ";", start)
         IN  IF end = 0
             THEN <<SubSeq(rest, start, Len(rest))>>
             ELSE <<SubSeq(rest, start, end - 1)>> \o split_keys(rest, end + 1)

RECURSIVE rest_of_line(_)
\* std::getline after the extracted words: each later word with its blank
rest_of_line(words) ==
    IF words = <<>> THEN <<>> ELSE <<" ">> \o Head(words) \o rest_of_line(Tail(words))

\* merkle::Hash::to_string and the constructor from a hex string
to_string(h) == <<"hex", h>>

from_string(hex) == hex[2]

Text(t) == [kind |-> "text", text |-> t]

\* the words of a command whose PROPAGATE prefix is skipped but forgotten
parse_command_forgets_prefix(command) ==
    LET w             == Words(command)
        is_propagated == Len(w) >= 1 /\ w[1] = Str("PROPAGATE")
        off           == IF is_propagated THEN 1 ELSE 0
        word(i)       == IF Len(w) >= i THEN w[i] ELSE <<>>
    IN  [is_propagated |-> FALSE,
         action |-> word(1 + off),
         key    |-> word(2 + off),
         value  |-> word(3 + off),
         good   |-> Len(w) >= 3 + off,
         rest   |-> IF Len(w) >= 4 + off THEN SubSeq(w, 4 + off, Len(w)) ELSE <<>>]

\* the words Node::process_command extracts: first, action, key, value;
\* good tells whether the stream is still good after extracting value
parse_command(command) ==
    LET w             == Words(command)
        is_propagated == Len(w) >= 1 /\ w[1] = Str("PROPAGATE")
        off           == IF is_propagated THEN 1 ELSE 0
        word(i)       == IF Len(w) >= i THEN w[i] ELSE <<>>
    IN  [is_propagated |-> is_propagated,
         action |-> word(1 + off),
         key    |-> word(2 + off),
         value  |-> word(3 + off),
         good   |-> Len(w) >= 3 + off,
         rest   |-> IF Len(w) >= 4 + off THEN SubSeq(w, 4 + off, Len(w)) ELSE <<>>]

propagate_command(verb, key, value, timestamp) ==
    <<Str("PROPAGATE"), Str(verb), key, value, Decimal(timestamp)>>

\* the response of GET_PATHS: keys[i] with paths[i] while both exist
paths_response(keys, paths) ==
    [i \in 1..Min(Len(keys), Len(paths)) |-> [key |-> keys[i], path |-> paths[i]]]

\* Node::process_command on node n at time timestamp: the store it leaves,
\* whether the index was rebuilt, the propagation it starts, its response
process_command(n, command, timestamp) ==
    LET p == parse_command(command)
        m == store_[n]
        unchanged(response) ==
            [store |-> m, rebuilt |-> FALSE, spawn |-> {}, response |-> response]
    IN  IF p.action = Str("GET") THEN
            unchanged(Text(get(m, p.key)))
        ELSE IF p.action = Str("SET") THEN
            [store    |-> set_store(m, p.key, p.value, timestamp),
             rebuilt  |-> set_accepts(m, p.key, timestamp) /\ merkle_index[n],
             spawn    |-> IF p.is_propagated THEN {}
                          ELSE {propagate_command("SET", p.key, p.value, timestamp)},
             response |-> Text(Str("OK"))]
        ELSE IF p.action = Str("DEL") THEN
            [store    |-> del_store(m, p.key, timestamp),
             rebuilt  |-> del_accepts(m, p.key, timestamp) /\ merkle_index[n],
             spawn    |-> IF p.is_propagated THEN {}
                          ELSE {propagate_command("DEL", p.key, p.value, timestamp)},
             response |-> Text(Str("OK"))]
        ELSE IF p.action = Str("GET_ALL") THEN
            unchanged(Text(format_keys_with_timestamps(get_all_keys_with_timestamps(m))))
        ELSE IF p.action = Str("GET_MERKLE_ROOT") THEN
            IF merkle_index[n]
            THEN unchanged([kind |-> "root",
                            hex |-> to_string(get_root_hash(merkle_tree[n]))])
            ELSE unchanged(Text(Str("EMPTY")))
        ELSE IF p.action = Str("GET_PATHS") THEN
            IF ~merkle_index[n]
            THEN unchanged(Text(Str("EMPTY")))
            ELSE LET rest_of_command == IF p.good THEN rest_of_line(p.rest) ELSE <<>>
                     keys    == split_keys(rest_of_command, 1)
                     paths   == get_paths(merkle_tree[n], key_to_index[n], keys)
                     entries == paths_response(keys, paths)
                 IN  IF entries = <<>>
                     THEN unchanged(Text(<<>>))
                     ELSE unchanged([kind |-> "paths", entries |-> entries])
        ELSE unchanged(Text(Str("Invalid command")))

-----------------------------------------------------------------------------
(* The two nodes *)

\* number of client commands the nodes serve
MaxWrites == 2

\* number of propagation threads alive at a time
MaxTasks == 1

\* number of anti-entropy cycles the two threads begin
MaxCycles == 1

\* last reading of the clock
MaxClock == 1

max_retries == 5

initial_delay == 100

\* the milliseconds a thread of Node::propagate_update sleeps before the
\* attempt that follows retry_count failures
delay(retry_count) == initial_delay * 2^retry_count

\* after Node::Node and Node::start_anti_entropy on both hosts: the stores
\* are empty and have their index
InitNode ==
    /\ store_ = [n \in Nodes |-> <<>>]
    /\ mutex_ = [n \in Nodes |-> "free"]
    /\ IndexAtRest
    /\ merkle_index = [n \in Nodes |-> TRUE]
    /\ merkle_tree = [n \in Nodes |-> <<>>]
    /\ key_to_index = [n \in Nodes |-> <<>>]
    /\ last = NoCall
    /\ InitThreads

\* the cycles in S did not run undisturbed
Disturbed(S) ==
    [x \in Nodes |-> IF x \in S /\ cycle[x] = "clean" THEN "dirty" ELSE cycle[x]]

\* node n has executed a command with result r: the store, the index that
\* set / del rebuilt under the store's lock, the propagation thread
Served(n, r) ==
    /\ store_' = [store_ EXCEPT ![n] = r.store]
    /\ merkle_tree' = [merkle_tree EXCEPT ![n] =
          IF r.rebuilt THEN rebuild_tree(get_all_key_value_data(r.store)) ELSE @]
    /\ key_to_index' = [key_to_index EXCEPT ![n] =
          IF r.rebuilt THEN rebuild_key_to_index(get_all_key_value_data(r.store)) ELSE @]
    /\ rebuilding' = [rebuilding EXCEPT ![n] =
          IF r.rebuilt THEN Idle(get_all_key_value_data(r.store)) ELSE @]
    /\ UNCHANGED <<mutex_, merkle_index, last, tree_mutex>>

Spawned(n, r) ==
    {[from |-> n, command |-> c, retry_count |-> 0] : c \in r.spawn}

ClientCommands ==
    {<<Str("SET"), k, v>> : k \in Keys, v \in Values}
        \cup {<<Str("DEL"), k>> : k \in Keys}

\* requests that name no key, or no verb of the protocol
MalformedRequests ==
    {<<Str("SET")>>, <<Str("DEL")>>, <<Str("GET")>>, <<Str("HELLO")>>}

\* what a client may send to a session
Requests == ClientCommands \cup MalformedRequests

\* a session of n reads a client's SET or DEL and dispatches it
ClientCommand(n, command) ==
    /\ writes < MaxWrites
    /\ Cardinality(tasks) < MaxTasks
    /\ LET r == process_command(n, command, now)
       IN  /\ Served(n, r)
           /\ tasks' = tasks \cup Spawned(n, r)
    /\ writes' = writes + 1
    /\ cycle' = Disturbed(Nodes)
    /\ UNCHANGED <<now, pc, ae, cycles>>

\* a thread of Node::propagate_update that goes on after a success
PropagateAttempt_goes_on(task, ok) ==
    /\ task \in tasks
    /\ IF ok
       THEN /\ Served(Peer(task.from),
                      process_command(Peer(task.from), task.command, now))
            /\ tasks' = tasks \cup
                  Spawned(Peer(task.from),
                          process_command(Peer(task.from), task.command, now))
            /\ cycle' = Disturbed(Nodes)
       ELSE /\ tasks' = (tasks \ {task}) \cup
                  (IF task.retry_count + 1 < max_retries
                   THEN {[task EXCEPT !.retry_count = @ + 1]}
                   ELSE {})
            /\ cycle' = Disturbed(Nodes)
            /\ UNCHANGED <<storeVars, last>>
    /\ UNCHANGED <<now, pc, ae, writes, cycles>>

\* one attempt of a thread of Node::propagate_update: the connection
\* succeeds and the peer dispatches the command, or it fails and the
\* thread counts the attempt, giving up after max_retries
PropagateAttempt(task, ok) ==
    /\ task \in tasks
    /\ IF ok
       THEN /\ Served(Peer(task.from),
                      process_command(Peer(task.from), task.command, now))
            /\ tasks' = (tasks \ {task}) \cup
                  Spawned(Peer(task.from),
                          process_command(Peer(task.from), task.command, now))
            /\ cycle' = Disturbed(Nodes)
       ELSE /\ tasks' = (tasks \ {task}) \cup
                  (IF task.retry_count + 1 < max_retries
                   THEN {[task EXCEPT !.retry_count = @ + 1]}
                   ELSE {})
            /\ cycle' = Disturbed(Nodes)
            /\ UNCHANGED <<storeVars, last>>
    /\ UNCHANGED <<now, pc, ae, writes, cycles>>

Tick ==
    /\ now < MaxClock
    /\ now' = now + 1
    /\ UNCHANGED <<storeVars, last, pc, ae, tasks, cycle, writes, cycles>>

-----------------------------------------------------------------------------
(* The anti-entropy thread: AntiEntropyManager::run_merkle_anti_entropy and *)
(* run_full_state_anti_entropy of anti_entropy_manager.hpp                  *)

Goto(n, label, locals) ==
    /\ pc' = [pc EXCEPT ![n] = label]
    /\ ae' = [ae EXCEPT ![n] = locals]

\* the cycle returns and the thread sleeps
Return(n) == Goto(n, "sleep", NoLocals)

\* the loop over the keys to fetch or send goes on, or the cycle returns
Continue(n, work) ==
    IF work = <<>>
    THEN Return(n)
    ELSE Goto(n, "work", [NoLocals EXCEPT !.work = work])

Fetch(k) == [kind |-> "fetch", key |-> k]

Send(k) == [kind |-> "send", key |-> k]

\* the sleep ends; run_merkle_anti_entropy tests the local index; count is
\* the number of cycles then begun
WakeUp(n, count) ==
    /\ pc[n] = "sleep"
    /\ IF ~merkle_index[n] \/ empty(merkle_tree[n])
       THEN Goto(n, "full_state", NoLocals)
       ELSE Goto(n, "local_root", NoLocals)
    /\ cycle' = [cycle EXCEPT ![n] = "clean"]
    /\ cycles' = count
    /\ UNCHANGED <<storeVars, last, now, tasks, writes>>

BeginCycle(n) == WakeUp(n, cycles + 1)

CycleStart(n) == cycles < MaxCycles /\ BeginCycle(n)

LocalRoot(n) ==
    /\ pc[n] = "local_root"
    /\ Goto(n, "peer_root",
            [ae[n] EXCEPT !.local_root = get_root_hash(merkle_tree[n])])
    /\ UNCHANGED <<storeVars, last, now, tasks, cycle, writes, cycles>>

\* request_peer_merkle_root taking every response for no response
request_peer_merkle_root_unread(n, ok) == ZeroHash

\* AntiEntropyManager::request_peer_merkle_root
request_peer_merkle_root(n, ok) ==
    LET response == process_command(Peer(n), <<Str("GET_MERKLE_ROOT")>>, now).response
    IN  IF ~ok \/ response.kind # "root"
        THEN ZeroHash
        ELSE from_string(response.hex)

RequestPeerRoot(n, ok) ==
    /\ pc[n] = "peer_root"
    /\ LET peer_root == request_peer_merkle_root(n, ok)
       IN  IF to_string(peer_root) = to_string(ZeroHash)
           THEN Goto(n, "full_state", NoLocals)
           ELSE IF to_string(ae[n].local_root) = to_string(peer_root)
           THEN Return(n)
           ELSE Goto(n, "local_keys", ae[n])
    /\ cycle' = IF ok THEN cycle ELSE Disturbed({n})
    /\ UNCHANGED <<storeVars, last, now, tasks, writes, cycles>>

LocalKeys(n) ==
    /\ pc[n] = "local_keys"
    /\ LET local_keys == get_all_keys_with_timestamps(store_[n])
       IN  Goto(n, "peer_paths",
                [ae[n] EXCEPT !.key_list =
                    [i \in 1..Len(local_keys) |-> local_keys[i].key]])
    /\ UNCHANGED <<storeVars, last, now, tasks, cycle, writes, cycles>>

\* AntiEntropyManager::request_peer_paths: no request for no keys; a failed
\* connection or a response of no bytes throws and leaves no paths
request_peer_paths(n, keys, ok) ==
    IF keys = <<>>
    THEN <<>>
    ELSE LET response ==
                 process_command(Peer(n), <<Str("GET_PATHS"), join_keys(keys)>>, now).response
         IN  IF ~ok \/ response.kind # "paths"
             THEN <<>>
             ELSE [i \in 1..Len(response.entries) |-> response.entries[i].path]

RequestPeerPaths(n, ok) ==
    /\ pc[n] = "peer_paths"
    /\ ae[n].key_list = <<>> => ok
    /\ Goto(n, "find_differences",
            [ae[n] EXCEPT !.peer_paths = request_peer_paths(n, ae[n].key_list, ok)])
    /\ cycle' = IF ok THEN cycle ELSE Disturbed({n})
    /\ UNCHANGED <<storeVars, last, now, tasks, writes, cycles>>

\* run_merkle_anti_entropy sending the keys it asked about to the peer
FindDiff_pushes(n) ==
    /\ pc[n] = "find_differences"
    /\ Continue(n, [i \in 1..Len(ae[n].key_list) |-> Send(ae[n].key_list[i])])
    /\ UNCHANGED <<storeVars, last, now, tasks, cycle, writes, cycles>>

FindDiff(n) ==
    /\ pc[n] = "find_differences"
    /\ LET differing_keys ==
               find_differences(merkle_tree[n], ae[n].peer_paths, ae[n].key_list)
       IN  Continue(n, [i \in 1..Len(differing_keys) |-> Fetch(differing_keys[i])])
    /\ UNCHANGED <<storeVars, last, now, tasks, cycle, writes, cycles>>

\* run_full_state_anti_entropy reads the local keys
FullStateLocalKeys(n) ==
    /\ pc[n] = "full_state"
    /\ Goto(n, "peer_keys",
            [NoLocals EXCEPT !.local_keys = get_all_keys_with_timestamps(store_[n])])
    /\ UNCHANGED <<storeVars, last, now, tasks, cycle, writes, cycles>>

\* AntiEntropyManager::get_peer_keys_with_timestamps: a failed connection
\* or a response of no bytes leaves the map empty
get_peer_keys_with_timestamps(n, ok) ==
    LET response == process_command(Peer(n), <<Str("GET_ALL")>>, now).response
    IN  IF ~ok \/ response.kind # "text"
        THEN <<>>
        ELSE parse_keys_with_timestamps(response.text)

RECURSIVE keys_to_send(_, _)
keys_to_send(local_keys, peer_keys) ==
    IF local_keys = <<>>
    THEN <<>>
    ELSE LET e == Head(local_keys)
         IN  (IF ~contains(peer_keys, e.key)
                  \/ e.timestamp > peer_keys[find(peer_keys, e.key)].timestamp
              THEN <<Send(e.key)>>
              ELSE <<>>) \o keys_to_send(Tail(local_keys), peer_keys)

RECURSIVE keys_to_fetch(_, _)
keys_to_fetch(peer_keys, local_keys) ==
    IF peer_keys = <<>>
    THEN <<>>
    ELSE LET e == Head(peer_keys)
         IN  (IF ~contains(local_keys, e.key)
                  \/ e.timestamp > local_keys[find(local_keys, e.key)].timestamp
              THEN <<Fetch(e.key)>>
              ELSE <<>>) \o keys_to_fetch(Tail(peer_keys), local_keys)

\* run_full_state_anti_entropy fetching every key the peer lists
full_state_work_fetch_all(local_keys, peer_keys) ==
    IF local_keys = <<>>
    THEN [i \in 1..Len(peer_keys) |-> Fetch(peer_keys[i].key)]
    ELSE IF peer_keys = <<>>
    THEN [i \in 1..Len(local_keys) |-> Send(local_keys[i].key)]
    ELSE keys_to_send(local_keys, peer_keys)
             \o [i \in 1..Len(peer_keys) |-> Fetch(peer_keys[i].key)]

\* the keys run_full_state_anti_entropy fetches and sends, in its order
full_state_work(local_keys, peer_keys) ==
    IF local_keys = <<>>
    THEN [i \in 1..Len(peer_keys) |-> Fetch(peer_keys[i].key)]
    ELSE IF peer_keys = <<>>
    THEN [i \in 1..Len(local_keys) |-> Send(local_keys[i].key)]
    ELSE keys_to_send(local_keys, peer_keys) \o keys_to_fetch(peer_keys, local_keys)

FullStatePeerKeys(n, ok) ==
    /\ pc[n] = "peer_keys"
    /\ Continue(n, full_state_work(ae[n].local_keys,
                                   get_peer_keys_with_timestamps(n, ok)))
    /\ cycle' = IF ok THEN cycle ELSE Disturbed({n})
    /\ UNCHANGED <<storeVars, last, now, tasks, writes, cycles>>

\* fetch_and_update_key without its try block: the exception of a failed
\* request leaves the thread function
FetchKey_escapes(n, ok) ==
    /\ pc[n] = "work"
    /\ Head(ae[n].work).kind = "fetch"
    /\ LET key   == Head(ae[n].work).key
           value == process_command(Peer(n), <<Str("GET"), key>>, now).response.text
       IN  IF ~ok
           THEN Goto(n, "terminated", NoLocals)
           ELSE IF value # <<>>
           THEN Goto(n, "update", [ae[n] EXCEPT !.value = value])
           ELSE Continue(n, Tail(ae[n].work))
    /\ cycle' = IF ok THEN cycle ELSE Disturbed({n})
    /\ UNCHANGED <<storeVars, last, now, tasks, writes, cycles>>

\* AntiEntropyManager::fetch_and_update_key up to the test of the value
FetchKey(n, ok) ==
    /\ pc[n] = "work"
    /\ Head(ae[n].work).kind = "fetch"
    /\ LET key   == Head(ae[n].work).key
           value == process_command(Peer(n), <<Str("GET"), key>>, now).response.text
       IN  IF ok /\ value # <<>>
           THEN Goto(n, "update", [ae[n] EXCEPT !.value = value])
           ELSE Continue(n, Tail(ae[n].work))
    /\ cycle' = IF ok THEN cycle ELSE Disturbed({n})
    /\ UNCHANGED <<storeVars, last, now, tasks, writes, cycles>>

\* kv_store_.set(key, value, current_timestamp() + 1)
UpdateKey(n) ==
    /\ pc[n] = "update"
    /\ LET key == Head(ae[n].work).key
           m   == store_[n]
       IN  Served(n, [store   |-> set_store(m, key, ae[n].value, now + 1),
                      rebuilt |-> set_accepts(m, key, now + 1) /\ merkle_index[n]])
    /\ Continue(n, Tail(ae[n].work))
    /\ cycle' = Disturbed({Peer(n)})
    /\ UNCHANGED <<now, tasks, writes, cycles>>

\* a push that tells the peer to delete the key
SendKey_sends_del(n, ok) ==
    /\ pc[n] = "work"
    /\ Head(ae[n].work).kind = "send"
    /\ LET key    == Head(ae[n].work).key
           val_ts == get_value_with_timestamp(store_[n], key)
           command == propagate_command("DEL", key, val_ts.value, val_ts.timestamp)
       IN  IF ok
           THEN /\ Served(Peer(n), process_command(Peer(n), command, now))
                /\ cycle' = Disturbed({Peer(n)})
           ELSE /\ UNCHANGED <<storeVars, last>>
                /\ cycle' = Disturbed({n})
    /\ Continue(n, Tail(ae[n].work))
    /\ UNCHANGED <<now, tasks, writes, cycles>>

\* AntiEntropyManager::send_update_to_peer and its propagate_update: one
\* attempt, a failure is logged
SendKey(n, ok) ==
    /\ pc[n] = "work"
    /\ Head(ae[n].work).kind = "send"
    /\ LET key    == Head(ae[n].work).key
           val_ts == get_value_with_timestamp(store_[n], key)
           command == propagate_command("SET", key, val_ts.value, val_ts.timestamp)
       IN  IF ok
           THEN /\ Served(Peer(n), process_command(Peer(n), command, now))
                /\ cycle' = Disturbed({Peer(n)})
           ELSE /\ UNCHANGED <<storeVars, last>>
                /\ cycle' = Disturbed({n})
    /\ Continue(n, Tail(ae[n].work))
    /\ UNCHANGED <<now, tasks, writes, cycles>>

Next ==
    \/ \E n \in Nodes, command \in ClientCommands : ClientCommand(n, command)
    \/ \E task \in tasks, ok \in BOOLEAN : PropagateAttempt(task, ok)
    \/ Tick
    \/ \E n \in Nodes : CycleStart(n)
    \/ \E n \in Nodes : LocalRoot(n)
    \/ \E n \in Nodes, ok \in BOOLEAN : RequestPeerRoot(n, ok)
    \/ \E n \in Nodes : LocalKeys(n)
    \/ \E n \in Nodes, ok \in BOOLEAN : RequestPeerPaths(n, ok)
    \/ \E n \in Nodes : FindDiff(n)
    \/ \E n \in Nodes : FullStateLocalKeys(n)
    \/ \E n \in Nodes, ok \in BOOLEAN : FullStatePeerKeys(n, ok)
    \/ \E n \in Nodes, ok \in BOOLEAN : FetchKey(n, ok)
    \/ \E n \in Nodes : UpdateKey(n)
    \/ \E n \in Nodes, ok \in BOOLEAN : SendKey(n, ok)

Spec == InitNode /\ [][Next]_vars

-----------------------------------------------------------------------------
(* The sessions and the propagation threads of the two nodes while the    *)
(* anti-entropy threads sleep; every propagation thread gets to run        *)

Attempt == \E task \in tasks, ok \in BOOLEAN : PropagateAttempt(task, ok)

NextPropagate ==
    \/ \E n \in Nodes, command \in Requests : ClientCommand(n, command)
    \/ \E task \in tasks, ok \in BOOLEAN : PropagateAttempt(task, ok)
    \/ Tick

SpecPropagate == InitNode /\ [][NextPropagate]_vars /\ WF_vars(Attempt)

-----------------------------------------------------------------------------
(* The anti-entropy threads of two nodes that hold given stores, serve no   *)
(* client and reach each other                                             *)

\* number of anti-entropy cycles the two threads begin between them
MaxSyncCycles == 2

\* the stores hold any records, the clock has passed their timestamps, the
\* threads sleep; last keeps the stores the threads found
InitSync ==
    /\ store_ \in [Nodes -> StoreStates]
    /\ mutex_ = [n \in Nodes |-> "free"]
    /\ IndexAtRest
    /\ merkle_index = [n \in Nodes |-> TRUE]
    /\ merkle_tree =
          [n \in Nodes |-> rebuild_tree(get_all_key_value_data(store_[n]))]
    /\ key_to_index =
          [n \in Nodes |-> rebuild_key_to_index(get_all_key_value_data(store_[n]))]
    /\ last = [op |-> "sync", stores |-> store_]
    /\ now = MaxTime
    /\ pc = [n \in Nodes |-> "sleep"]
    /\ ae = [n \in Nodes |-> NoLocals]
    /\ tasks = {}
    /\ cycle = [n \in Nodes |-> "none"]
    /\ writes = 0
    /\ cycles = 0

SyncCycleStart(n) == cycles < MaxSyncCycles /\ BeginCycle(n)

\* every request of the cycles reaches the peer and is answered
NextSync ==
    \/ \E n \in Nodes : SyncCycleStart(n)
    \/ \E n \in Nodes : LocalRoot(n)
    \/ \E n \in Nodes : RequestPeerRoot(n, TRUE)
    \/ \E n \in Nodes : LocalKeys(n)
    \/ \E n \in Nodes : RequestPeerPaths(n, TRUE)
    \/ \E n \in Nodes : FindDiff(n)
    \/ \E n \in Nodes : FullStateLocalKeys(n)
    \/ \E n \in Nodes : FullStatePeerKeys(n, TRUE)
    \/ \E n \in Nodes : FetchKey(n, TRUE)
    \/ \E n \in Nodes : UpdateKey(n)
    \/ \E n \in Nodes : SendKey(n, TRUE)

SpecSync == InitSync /\ [][NextSync]_vars

-----------------------------------------------------------------------------
(* The anti-entropy threads in their endless loop: while (true) { sleep;    *)
(* run_anti_entropy(); }.  No client writes, every request is answered, and *)
(* both threads keep running                                                *)

RECURSIVE MapsWithin(_, _)
\* every content and iteration order of a map over the keys of K whose
\* timestamps are in T
MapsWithin(K, T) ==
    IF K = {}
    THEN {<<>>}
    ELSE UNION {
            {<<ValueWithTimestamp(k, v, t)>> \o m :
                 v \in Values, t \in T, m \in MapsWithin(K \ {k}, T)} :
            k \in K}

\* the stores writes up to the last reading of the clock can have left
WrittenStores == UNION {MapsWithin(K, 0..MaxClock) : K \in SUBSET Keys}

\* the threads sleep, the stores are any two of the given ones and have
\* their index; last keeps the stores the threads found
LoopFrom(stores) ==
    /\ store_ \in [Nodes -> stores]
    /\ mutex_ = [n \in Nodes |-> "free"]
    /\ IndexAtRest
    /\ merkle_index = [n \in Nodes |-> TRUE]
    /\ merkle_tree =
          [n \in Nodes |-> rebuild_tree(get_all_key_value_data(store_[n]))]
    /\ key_to_index =
          [n \in Nodes |-> rebuild_key_to_index(get_all_key_value_data(store_[n]))]
    /\ last = [op |-> "sync", stores |-> store_]
    /\ now = MaxClock
    /\ pc = [n \in Nodes |-> "sleep"]
    /\ ae = [n \in Nodes |-> NoLocals]
    /\ tasks = {}
    /\ cycle = [n \in Nodes |-> "none"]
    /\ writes = 0
    /\ cycles = 0

InitLoop == LoopFrom(WrittenStores)

\* the loop of AntiEntropyManager::start begins its next cycle; the count of
\* cycles stops at MaxCycles
LoopCycleStart(n) == WakeUp(n, Min(cycles + 1, MaxCycles))

\* a step of the anti-entropy thread of n whose requests are answered
Reachable(n) ==
    \/ LoopCycleStart(n)
    \/ LocalRoot(n)
    \/ RequestPeerRoot(n, TRUE)
    \/ LocalKeys(n)
    \/ RequestPeerPaths(n, TRUE)
    \/ FindDiff(n)
    \/ FullStateLocalKeys(n)
    \/ FullStatePeerKeys(n, TRUE)
    \/ FetchKey(n, TRUE)
    \/ UpdateKey(n)
    \/ SendKey(n, TRUE)

NextConverge == \E n \in Nodes : Reachable(n)

\* a thread at the head of its work list finds a key of that kind
AtWork(n, kind) == pc[n] = "work" /\ Head(ae[n].work).kind = kind

\* the thread of n keeps running: weak fairness of each step of its loop.
\* For FullStatePeerKeys and SendKey, WF_vars(A) is written out as
\* []<>(~ENABLED A) \/ []<><<A>>_vars with the guard of A for ENABLED A
Running(n) ==
    /\ WF_vars(LoopCycleStart(n))
    /\ WF_vars(LocalRoot(n))
    /\ WF_vars(RequestPeerRoot(n, TRUE))
    /\ WF_vars(LocalKeys(n))
    /\ WF_vars(RequestPeerPaths(n, TRUE))
    /\ WF_vars(FindDiff(n))
    /\ WF_vars(FullStateLocalKeys(n))
    /\ []<>(pc[n] # "peer_keys") \/ []<><<FullStatePeerKeys(n, TRUE)>>_vars
    /\ WF_vars(FetchKey(n, TRUE))
    /\ WF_vars(UpdateKey(n))
    /\ []<>(~AtWork(n, "send")) \/ []<><<SendKey(n, TRUE)>>_vars

SpecConverge ==
    InitLoop /\ [][NextConverge]_vars /\ \A n \in Nodes : Running(n)

-----------------------------------------------------------------------------
(* The cycle of anti_entropy_manager.cpp, which keeps one socket for all   *)
(* its requests, and the Node::Session at the other end of the connection. *)
(* ae[n].socket is that connection: the requests written to it, the state  *)
(* of its session, the requests the session has dispatched, the response   *)
(* not yet read                                                            *)

\* boost::asio::connect has returned, the peer has started a session
Connected == [NoSocket EXCEPT !.session = "reading"]

\* the request the cycle writes next
CppRequest(label) ==
    IF label = "cpp_write_root" THEN <<Str("GET_MERKLE_ROOT")>> ELSE <<Str("GET_ALL")>>

\* AntiEntropyManager::start of the .cpp runs a cycle: without index the cycle
\* returns; connect throws or gives the socket of the cycle.  An exception
\* is caught in start, and the thread sleeps
CppCycleStart(n, ok) ==
    /\ pc[n] = "sleep"
    /\ IF ~merkle_index[n] \/ ~ok
       THEN Return(n)
       ELSE Goto(n, "cpp_write_root",
                 [NoLocals EXCEPT !.local_root = get_root_hash(merkle_tree[n]),
                                  !.socket = Connected])
    /\ cycle' = [cycle EXCEPT ![n] = IF ok THEN "clean" ELSE "dirty"]
    /\ cycles' = Min(cycles + 1, MaxCycles)
    /\ UNCHANGED <<storeVars, last, now, tasks, writes>>

\* boost::asio::write(socket, request): the bytes are handed to the
\* connection, or the write throws
CppWrite(n, ok) ==
    /\ pc[n] \in {"cpp_write_root", "cpp_write_all"}
    /\ IF ok
       THEN Goto(n, IF pc[n] = "cpp_write_root" THEN "cpp_read_root" ELSE "cpp_read_all",
                 [ae[n] EXCEPT !.socket.written = Append(@, CppRequest(pc[n]))])
       ELSE Return(n)
    /\ cycle' = IF ok THEN cycle ELSE Disturbed({n})
    /\ UNCHANGED <<storeVars, last, now, tasks, writes, cycles>>

\* Node::Session of the peer: do_read reads what was written, dispatches it,
\* do_write writes the response if it has bytes; nothing reads again and the
\* session ends, which closes the connection
SessionServe(n) ==
    LET s == ae[n].socket
    IN  /\ s.session = "reading"
        /\ Len(s.dispatched) < Len(s.written)
        /\ LET request == s.written[Len(s.dispatched) + 1]
               r       == process_command(Peer(n), request, now)
           IN  /\ Served(Peer(n), r)
               /\ ae' = [ae EXCEPT ![n].socket =
                      [s EXCEPT !.session = "closed",
                                !.dispatched = Append(@, request),
                                !.response = IF r.response = Text(<<>>)
                                             THEN <<>> ELSE <<r.response>>]]
        /\ UNCHANGED <<now, pc, tasks, cycle, writes, cycles>>

\* socket.read_some: the response, or the end of file of a closed connection,
\* which throws; then the comparison of the roots
CppRead(n) ==
    LET s == ae[n].socket
    IN  /\ pc[n] \in {"cpp_read_root", "cpp_read_all"}
        /\ s.response # <<>> \/ s.session = "closed"
        /\ IF s.response = <<>>
           THEN /\ Return(n)
                /\ cycle' = Disturbed({n})
           ELSE /\ LET response == Head(s.response)
                       read     == [ae[n] EXCEPT !.socket.response = <<>>]
                   IN  IF pc[n] = "cpp_read_all"
                       THEN Goto(n, "cpp_parse_all", read)
                       ELSE IF response.kind = "root"
                               /\ response.hex = to_string(ae[n].local_root)
                       THEN Return(n)
                       ELSE Goto(n, "cpp_write_all", read)
                /\ cycle' = cycle
        /\ UNCHANGED <<storeVars, last, now, tasks, writes, cycles>>

NextSession ==
    \/ \E ok \in BOOLEAN : CppCycleStart(Initiator, ok)
    \/ \E ok \in BOOLEAN : CppWrite(Initiator, ok)
    \/ SessionServe(Initiator)
    \/ CppRead(Initiator)

SpecSession == InitLoop /\ [][NextSession]_vars

-----------------------------------------------------------------------------
(* The loop of one anti-entropy thread when a request may fail (the        *)
(* connection is refused, or the read throws), while the thread of the     *)
(* peer sleeps and the sessions of the peer serve                          *)


\* a step of the anti-entropy thread of n, whatever becomes of its request
Step(n) ==
    \/ LoopCycleStart(n)
    \/ LocalRoot(n)
    \/ \E ok \in BOOLEAN : RequestPeerRoot(n, ok)
    \/ LocalKeys(n)
    \/ \E ok \in BOOLEAN : RequestPeerPaths(n, ok)
    \/ FindDiff(n)
    \/ FullStateLocalKeys(n)
    \/ \E ok \in BOOLEAN : FullStatePeerKeys(n, ok)
    \/ \E ok \in BOOLEAN : FetchKey(n, ok)
    \/ UpdateKey(n)
    \/ \E ok \in BOOLEAN : SendKey(n, ok)

NextLoop == Step(Initiator)

SpecLoop == InitLoop /\ [][NextLoop]_vars

\* the stores writes of the first millisecond can have left
FirstStores == UNION {MapsWithin(K, {0}) : K \in SUBSET Keys}

InitRestart == LoopFrom(FirstStores)

\* the thread is scheduled again and again: no step of the loop waits for
\* another thread
SpecRestart == InitRestart /\ [][NextLoop]_vars /\ WF_vars(Step(Initiator))

-----------------------------------------------------------------------------
(* GET_PATHS requests read by the sessions of two nodes that hold given     *)
(* stores                                                                  *)

\* the words a client may put between the verb and the keys
ExtraWords == {<<>>, <<Str("x"), Str("y")>>}

\* GET_PATHS followed by the keys joined as request_peer_paths joins them
PathsRequest(words, keys) == <<Str("GET_PATHS")>> \o words \o <<join_keys(keys)>>

\* a session of n reads a GET_PATHS request and dispatches it
ServePaths(n, words, keys) ==
    /\ last' = [op |-> "GET_PATHS", node |-> n, words |-> words, keys |-> keys,
                response |->
                    process_command(n, PathsRequest(words, keys), now).response]
    /\ UNCHANGED storeVars
    /\ UNCHANGED sysVars

NextPaths ==
    \E n \in Nodes, words \in ExtraWords, keys \in KeyLists \ {<<>>} :
        ServePaths(n, words, keys)

SpecPaths == InitLoop /\ [][NextPaths]_vars

-----------------------------------------------------------------------------
(* Properties of the store (SpecStore) *)

\* what the properties read off a map, written without the operators of
\* the model
PresentIn(m, k) == \E i \in 1..Len(m) : m[i].key = k

EntriesOf(m, k) == {i \in 1..Len(m) : m[i].key = k}

RecordIn(m, k) == m[CHOOSE i \in 1..Len(m) : m[i].key = k]

HoldsExactly(m, k, v, t) ==
    /\ Cardinality(EntriesOf(m, k)) = 1
    /\ RecordIn(m, k).value = v
    /\ RecordIn(m, k).timestamp = t

\* the step is a call of op on the store of StoreNode
IsCall(op) == mutex_[StoreNode] = "free" /\ last'.op = op

\* C1: set(k, v, t) is accepted iff k is absent or t >= the stored timestamp;
\* an accepted set leaves exactly the record (v, t) for k, a rejected one
\* leaves the record as it was; so of two successive sets of k the second
\* wins iff its timestamp is not smaller.
C1_SetLastWriterWins ==
    [][IsCall("set") =>
        LET m  == store_[StoreNode]
            m2 == store_'[StoreNode]
            k  == last'.key
            v  == last'.value
            t  == last'.timestamp
        IN  /\ last'.accepted <=>
                  (~PresentIn(m, k) \/ t >= RecordIn(m, k).timestamp)
            /\ last'.accepted => HoldsExactly(m2, k, v, t)
            /\ ~last'.accepted => m2 = m
            /\ (last.op = "set" /\ last.accepted /\ last.key = k) =>
                  /\ HoldsExactly(m, k, last.value, last.timestamp)
                  /\ IF t >= last.timestamp
                     THEN HoldsExactly(m2, k, v, t)
                     ELSE HoldsExactly(m2, k, last.value, last.timestamp)
    ]_vars

\* an accepted set has overwritten the record of a key with a later timestamp
C1_Witness ==
    /\ last.op = "set" /\ last.accepted /\ last.timestamp = MaxTime
    /\ last.value = <<"1">>
    /\ HoldsExactly(store_[StoreNode], last.key, last.value, last.timestamp)
    /\ Len(store_[StoreNode]) = 2

\* C2: del(k, t) is accepted iff k is present and t >= the stored timestamp;
\* an accepted del removes k and nothing else, a rejected one changes
\* nothing; so after set(k, v, t0) a del(k, t) removes k iff t >= t0.
C2_DelContract ==
    [][IsCall("del") =>
        LET m  == store_[StoreNode]
            m2 == store_'[StoreNode]
            k  == last'.key
            t  == last'.timestamp
        IN  /\ last'.accepted <=>
                  (PresentIn(m, k) /\ t >= RecordIn(m, k).timestamp)
            /\ last'.accepted =>
                  /\ ~PresentIn(m2, k)
                  /\ \A j \in Keys \ {k} :
                        /\ PresentIn(m2, j) <=> PresentIn(m, j)
                        /\ PresentIn(m, j) => RecordIn(m2, j) = RecordIn(m, j)
            /\ ~last'.accepted => m2 = m
            /\ (last.op = "set" /\ last.accepted /\ last.key = k) =>
                  (~PresentIn(m2, k) <=> t >= last.timestamp)
    ]_vars

\* an accepted del has removed one key of a store that keeps the other
C2_Witness ==
    /\ last.op = "del" /\ last.accepted
    /\ ~PresentIn(store_[StoreNode], last.key)
    /\ Len(store_[StoreNode]) = 1

\* C3: a set(k, v, t) called again right after it was accepted is accepted
\* again and leaves the store as it was, and the rebuild it triggers leaves
\* the tree, the key positions and the root as they were.
C3_ReplayIdempotent ==
    [][/\ (IsCall("set") /\ last'.replay) =>
             /\ last'.accepted
             /\ store_'[StoreNode] = store_[StoreNode]
       /\ (mutex_[StoreNode] # "free" /\ last.op = "set" /\ last.replay) =>
             /\ merkle_tree'[StoreNode] = merkle_tree[StoreNode]
             /\ key_to_index'[StoreNode] = key_to_index[StoreNode]
             /\ merkle_tree[StoreNode] # <<>>
             /\ TreeRoot(merkle_tree'[StoreNode]) = TreeRoot(merkle_tree[StoreNode])
    ]_vars

\* a replayed set of the key that is not the first of a two-key store has
\* returned and its rebuild is done
C3_Witness ==
    /\ last.op = "set" /\ last.replay /\ last.accepted
    /\ mutex_[StoreNode] = "free" /\ merkle_index[StoreNode]
    /\ Len(store_[StoreNode]) = 2
    /\ store_[StoreNode][2].key = last.key

\* C4: a set or del that returns false leaves the store, the key positions
\* and the tree as they were and starts no rebuild.
C4_RejectedChangesNothing ==
    [][((IsCall("set") \/ IsCall("del")) /\ ~last'.accepted) =>
          /\ store_' = store_
          /\ key_to_index' = key_to_index
          /\ merkle_tree' = merkle_tree
          /\ mutex_' = mutex_
    ]_vars

\* a set was rejected by a store that has an index and holds a newer record
C4_Witness ==
    /\ last.op = "set" /\ ~last.accepted
    /\ merkle_index[StoreNode]
    /\ PresentIn(store_[StoreNode], last.key)
    /\ RecordIn(store_[StoreNode], last.key).timestamp > last.timestamp
    /\ RecordIn(store_[StoreNode], last.key).value # last.value

\* the leaf hash of the specification: the first 32 bytes of
\* k ":" v ":" decimal(t), compressed with a zero right half
L(k, v, t) ==
    sha256_compress(Take(k \o <<":">> \o v \o <<":">> \o Decimal(t), 32), <<>>)

\* C5: when an index is attached and no store operation is in progress,
\* the key positions are a bijection between the keys of the store and
\* 0..N-1, and the leaf at the position of k is L(k, value, timestamp) of
\* the record the store holds for k.
C5_IndexMatchesStore ==
    \A n \in Nodes :
        (merkle_index[n] /\ mutex_[n] = "free") =>
            LET m == store_[n]
                N == Len(m)
            IN  /\ \A i, j \in 1..N : m[i].key = m[j].key => i = j
                /\ DOMAIN key_to_index[n] = {m[i].key : i \in 1..N}
                /\ {key_to_index[n][k] : k \in DOMAIN key_to_index[n]} = 0..(N - 1)
                /\ Len(merkle_tree[n]) = N
                /\ \A i \in 1..N :
                      merkle_tree[n][key_to_index[n][m[i].key] + 1] =
                          L(m[i].key, m[i].value, m[i].timestamp)

\* an index was attached to a store that already held two keys, and its
\* rebuild is done
C5_Witness ==
    /\ last.op = "set_merkle_index"
    /\ mutex_[StoreNode] = "free"
    /\ Len(store_[StoreNode]) = 2
    /\ Len(merkle_tree[StoreNode]) = 2

\* C6: when an index is attached and no store operation is in progress,
\* the store has no keys iff the tree has no leaves iff the root is the
\* all-zero hash.
C6_EmptyEquivalence ==
    \A n \in Nodes :
        (merkle_index[n] /\ mutex_[n] = "free") =>
            /\ (Len(store_[n]) = 0) <=> (size(merkle_tree[n]) = 0)
            /\ (size(merkle_tree[n]) = 0) <=> empty(merkle_tree[n])
            /\ empty(merkle_tree[n]) <=> (get_root_hash(merkle_tree[n]) = <<>>)

\* the last key of a store with index was deleted and the rebuild is done
C6_Witness ==
    /\ last.op = "del" /\ last.accepted
    /\ merkle_index[StoreNode] /\ mutex_[StoreNode] = "free"
    /\ Len(store_[StoreNode]) = 0

\* C7: every path get_paths returns verifies against the root the same
\* index reports, and there is one path for every requested key the index
\* knows.
C7_PathsVerify ==
    last.op = "get_paths" =>
        /\ Len(last.paths) =
              Cardinality({i \in 1..Len(last.keys) : last.keys[i] \in last.known})
        /\ \A i \in 1..Len(last.paths) :
              PathRoot(last.paths[i].leaf, last.paths[i].elements) = last.root

\* get_paths has returned the paths of both keys of a two-leaf tree
C7_Witness ==
    /\ last.op = "get_paths"
    /\ Len(last.paths) = 2
    /\ Len(last.paths[1].elements) = 1
    /\ last.keys[1] # last.keys[2]

-----------------------------------------------------------------------------
(* Properties of find_differences (SpecIndex) *)

Range(q) == {q[i] : i \in 1..Len(q)}

\* C8: for a non-empty local index and the paths the peer returns for a
\* list of keys both sides hold, find_differences returns exactly the keys
\* whose leaf hash at the peer differs from the local leaf hash of the same
\* key.
C8_FindDifferencesExact ==
    (/\ last.op = "find_differences"
     /\ store_[last.node] # <<>>
     /\ \A i \in 1..Len(last.keys) :
           /\ PresentIn(store_[last.node], last.keys[i])
           /\ PresentIn(store_[Peer(last.node)], last.keys[i]))
    =>
        \A i \in 1..Len(last.keys) :
            LET k      == last.keys[i]
                local  == RecordIn(store_[last.node], k)
                remote == RecordIn(store_[Peer(last.node)], k)
            IN  (k \in Range(last.differing_keys)) <=>
                    (L(k, remote.value, remote.timestamp) #
                     L(k, local.value, local.timestamp))

\* C9: when the local tree is empty, find_differences returns every key of
\* the queried list.
C9_EmptyLocalAllDiffer ==
    (last.op = "find_differences" /\ store_[last.node] = <<>>) =>
        last.differing_keys = last.keys

-----------------------------------------------------------------------------
(* Properties of the two nodes (Spec) *)

\* the cycle that node n began has returned, and since it began no client
\* wrote, no propagation thread ran and no request of the cycle failed
CycleCompleted(n) == pc[n] = "sleep" /\ cycle[n] = "clean" /\ tasks = {}

\* C10: after one complete anti-entropy cycle of node A against node B, with
\* no concurrent client write and no transport failure, A holds for every
\* key of B's store a record whose value equals B's value, also for the
\* keys A did not hold before and the keys whose value on B is empty.
C10_CyclePullsPeerKeys ==
    CycleCompleted("A") =>
        \A i \in 1..Len(store_["B"]) :
            /\ PresentIn(store_["A"], store_["B"][i].key)
            /\ RecordIn(store_["A"], store_["B"][i].key).value = store_["B"][i].value

-----------------------------------------------------------------------------
(* Properties of two nodes that reconcile given stores (SpecSync) *)

\* the stores the two threads found
FoundStores == last.stores

\* C11: last writer wins across nodes.  When A held (k, vA, tA) and B held
\* (k, vB, tB) with tA < tB, no client writes, and A and B have each run one
\* anti-entropy cycle, in either order, get(k) returns vB on both nodes.
C11_LastWriterWinsAcrossNodes ==
    (last.op = "sync" /\ CycleCompleted("A") /\ CycleCompleted("B")) =>
        \A k \in Keys :
            (/\ PresentIn(FoundStores["A"], k)
             /\ PresentIn(FoundStores["B"], k)
             /\ RecordIn(FoundStores["A"], k).timestamp
                    < RecordIn(FoundStores["B"], k).timestamp)
            => /\ get(store_["A"], k) = RecordIn(FoundStores["B"], k).value
               /\ get(store_["B"], k) = RecordIn(FoundStores["B"], k).value

\* the response of node n to GET_MERKLE_ROOT
RootResponse(n) == process_command(n, <<Str("GET_MERKLE_ROOT")>>, now).response

\* the labels of a cycle at which it has asked, or is about to ask, the
\* peer for paths or a value, or sends the peer a PROPAGATE
PullLabels == {"local_keys", "peer_paths", "find_differences", "work", "update"}

\* a step of the cycle of node n
CycleStep(n) == pc'[n] # pc[n]

\* C12: when both nodes hold the identical records in the same order,
\* GET_MERKLE_ROOT returns the same string on both, and a cycle ends at the
\* root comparison: it issues no GET_PATHS, GET or PROPAGATE request and
\* leaves both stores unchanged.
C12_IdenticalStoresNoPull ==
    [][\A n \in Nodes :
          (store_["A"] = store_["B"] /\ cycle'[n] = "clean" /\ CycleStep(n)) =>
              /\ RootResponse("A") = RootResponse("B")
              /\ pc'[n] \notin PullLabels
              /\ pc[n] = "peer_root" => pc'[n] = "sleep"
              /\ store_' = store_]_vars

C12_Witness ==
    /\ last.op = "sync"
    /\ CycleCompleted("A")
    /\ store_["A"] = store_["B"]
    /\ store_ = FoundStores
    /\ Len(store_["A"]) = 2
    /\ store_["A"][1].timestamp # store_["A"][2].timestamp

\* C13: one-sided divergence.  When the initiator A found its store empty
\* and the reachable peer B held a non-empty store, after one cycle of A the
\* initiator holds every key of the peer with the peer's value, stamped
\* with the initiator's clock at pull time, and the peer's store is
\* unchanged.
C13_OneSidedDivergence ==
    (/\ last.op = "sync"
     /\ FoundStores["A"] = <<>>
     /\ FoundStores["B"] # <<>>
     /\ cycles = 1
     /\ CycleCompleted("A")) =>
        /\ store_["B"] = FoundStores["B"]
        /\ \A i \in 1..Len(store_["B"]) :
              LET peer == store_["B"][i]
              IN  /\ PresentIn(store_["A"], peer.key)
                  /\ RecordIn(store_["A"], peer.key).value = peer.value
                  /\ RecordIn(store_["A"], peer.key).timestamp = now

\* C14: when both stores are empty, an anti-entropy cycle terminates
\* without issuing any GET or PROPAGATE request and leaves both stores
\* empty: it reads the local keys, asks the peer for its keys and returns.
C14_EmptyStoresNoOp ==
    [][\A n \in Nodes :
          (/\ store_["A"] = <<>>
           /\ store_["B"] = <<>>
           /\ cycle'[n] = "clean"
           /\ CycleStep(n)) =>
              /\ pc'[n] \in {"full_state", "peer_keys", "sleep"}
              /\ pc[n] = "peer_keys" => pc'[n] = "sleep"
              /\ store_' = store_]_vars

C14_Witness ==
    /\ last.op = "sync"
    /\ FoundStores = [n \in Nodes |-> <<>>]
    /\ store_ = FoundStores
    /\ CycleCompleted("A")

-----------------------------------------------------------------------------
(* Properties of the commands the nodes serve (Spec) *)

\* C15: the node answers a client SET with OK iff the store accepted the
\* write and with ERROR: Outdated timestamp otherwise, and a client DEL
\* with OK iff the store accepted the deletion and with ERROR: Key not
\* found or outdated timestamp otherwise.
C15_AnswersTellAcceptance ==
    [][\A n \in Nodes, command \in ClientCommands :
          ClientCommand(n, command) =>
              LET p        == parse_command(command)
                  response == process_command(n, command, now).response
              IN  /\ p.action = Str("SET") =>
                        response = IF set_accepts(store_[n], p.key, now)
                                   THEN Text(Str("OK"))
                                   ELSE Text(Str("ERROR: Outdated timestamp"))
                  /\ p.action = Str("DEL") =>
                        response = IF del_accepts(store_[n], p.key, now)
                                   THEN Text(Str("OK"))
                                   ELSE Text(Str("ERROR: Key not found or outdated timestamp"))]_vars

\* the store of node n accepts the client command
Accepts(n, command) ==
    LET p == parse_command(command)
    IN  IF p.action = Str("SET")
        THEN set_accepts(store_[n], p.key, now)
        ELSE del_accepts(store_[n], p.key, now)

\* C16: a client SET or DEL that the local store rejects is never
\* propagated: a propagation starts only for a write whose set / del
\* returned true.
C16_RejectedNotPropagated ==
    [][\A n \in Nodes, command \in ClientCommands :
          (ClientCommand(n, command) /\ ~Accepts(n, command)) =>
              tasks' = tasks]_vars

\* the words of a propagated command: PROPAGATE verb key value timestamp
Verb(command) == command[2]

KeyOf(command) == command[3]

TimestampOf(command) == stoull(command[5])

\* C17: propagation preserves the timestamp.  A node that applies a received
\* PROPAGATE SET k v t or PROPAGATE DEL k v t applies it with the timestamp
\* t the originating node assigned: an accepted propagated SET leaves the
\* record of k with timestamp t, and a propagated DEL removes k exactly
\* when del(k, t) does.
C17_PropagationKeepsTimestamp ==
    [][\A task \in tasks :
          PropagateAttempt(task, TRUE) =>
              LET peer == Peer(task.from)
                  k    == KeyOf(task.command)
                  t    == TimestampOf(task.command)
              IN  /\ (Verb(task.command) = Str("SET") /\ store_'[peer] # store_[peer]) =>
                        /\ PresentIn(store_'[peer], k)
                        /\ RecordIn(store_'[peer], k).timestamp = t
                  /\ Verb(task.command) = Str("DEL") =>
                        store_'[peer] = del_store(store_[peer], k, t)]_vars

-----------------------------------------------------------------------------
(* Properties of the propagation threads (SpecPropagate) *)

\* the thread that propagates the client's SET x v, accepted by A at t
PropagationOf(x, v, t) ==
    [from |-> "A", command |-> propagate_command("SET", x, v, t), retry_count |-> 0]

\* A has accepted a client's SET x v at t and its propagation has started
AcceptedSet(x, v, t) ==
    /\ PropagationOf(x, v, t) \in tasks
    /\ PresentIn(store_["A"], x)
    /\ RecordIn(store_["A"], x) = ValueWithTimestamp(x, v, t)

\* an attempt to reach the peer has failed
AttemptFailed == \E task \in tasks : task.retry_count > 0

\* another write to x is under way
OtherWrite(x, v, t) ==
    \E task \in tasks : KeyOf(task.command) = x /\ task # PropagationOf(x, v, t)

\* B has received the propagated command and answers GET x with v
ReachedPeer(x, v, t) ==
    /\ PropagationOf(x, v, t) \notin tasks
    /\ get(store_["B"], x) = v

\* C18: foreground propagation reaches the peer.  If A accepts a client's
\* SET x v while B is reachable and no other write to x occurs, then
\* eventually B has received PROPAGATE SET x v t and GET x on B returns v.
C18_PropagationReachesPeer ==
    \A x \in Keys, v \in Values, t \in 0..MaxClock :
        AcceptedSet(x, v, t) ~>
            (ReachedPeer(x, v, t) \/ AttemptFailed \/ OtherWrite(x, v, t))

\* the commands the sessions hand to Node::propagate_update
PropagatedCommands ==
    {propagate_command(verb, k, v, t) :
        verb \in {"SET", "DEL"}, k \in Keys \cup {<<>>}, v \in Values,
        t \in 0..MaxClock}

\* a thread of node n is propagating the command
Propagating(n, command) ==
    \E task \in tasks : task.from = n /\ task.command = command

\* the waits of the five attempts, in milliseconds
Backoff == <<100, 200, 400, 800, 1600>>

\* C19: every propagation task terminates.  It makes at most 5 connection
\* attempts, waits 100, 200, 400, 800 and 1600 ms before attempts 1 to 5,
\* stops at the first attempt that succeeds, so the command is written to
\* the peer at most once, and after 5 failed attempts drops the update
\* without touching the local store.
C19_PropagationTerminates ==
    /\ [](\A task \in tasks :
              /\ task.retry_count + 1 \in 1..5
              /\ delay(task.retry_count) = Backoff[task.retry_count + 1])
    /\ [][\A task \in tasks :
              /\ PropagateAttempt(task, TRUE) => task \notin tasks'
              /\ PropagateAttempt(task, FALSE) =>
                    /\ store_' = store_
                    /\ task \notin tasks'
                    /\ task.retry_count + 1 = 5 => tasks' = tasks \ {task}]_vars
    /\ \A n \in Nodes, command \in PropagatedCommands :
          Propagating(n, command) ~> ~Propagating(n, command)

C19_Witness ==
    \E task \in tasks : task.retry_count + 1 = 5

\* some store holds a record with the empty key
EmptyKeyRecord == \E n \in Nodes : PresentIn(store_[n], <<>>)

\* C20: a request that is not a well-formed instance of one of the eight
\* verbs, whether its verb is unknown or a SET / DEL / GET lacks its key,
\* is answered with the literal Invalid command, leaves the store and the
\* index unchanged and is not propagated; no record with an empty key is
\* ever created.
C20_MalformedRequestRefused ==
    /\ [](~EmptyKeyRecord)
    /\ [][\A n \in Nodes, command \in MalformedRequests :
              ClientCommand(n, command) =>
                  /\ process_command(n, command, now).response
                        = Text(Str("Invalid command"))
                  /\ store_' = store_
                  /\ merkle_tree' = merkle_tree
                  /\ key_to_index' = key_to_index
                  /\ tasks' = tasks]_vars

-----------------------------------------------------------------------------
(* Properties of the endless anti-entropy loops (SpecConverge) *)

\* both stores hold the same keys, and the same value for every key
Converged ==
    \A k \in Keys \cup {<<>>} :
        /\ PresentIn(store_["A"], k) <=> PresentIn(store_["B"], k)
        /\ PresentIn(store_["A"], k) =>
              RecordIn(store_["A"], k).value = RecordIn(store_["B"], k).value

\* C21: eventual consistency.  When client writes have stopped and both
\* peers stay reachable, under fair scheduling of both anti-entropy loops
\* the two stores eventually hold the same set of keys with the same value
\* for every key, and keep doing so, also when each node holds a key the
\* other lacks and no propagation arrived.
C21_EventualConsistency == <>[]Converged

-----------------------------------------------------------------------------
(* Properties of the GET_PATHS handler (SpecPaths) *)

\* C22: for a request GET_PATHS k1;k2;...;kn whose keys are all present in
\* the responder's index, the response contains exactly n entries
\* ki,hex_path_i, one per requested key and in request order.
C22_PathsResponseComplete ==
    (/\ last.op = "GET_PATHS"
     /\ last.words = <<>>
     /\ \A i \in 1..Len(last.keys) :
           last.keys[i] \in DOMAIN key_to_index[last.node])
    => /\ last.response.kind = "paths"
       /\ Len(last.response.entries) = Len(last.keys)
       /\ \A i \in 1..Len(last.keys) :
             last.response.entries[i].key = last.keys[i]

\* the authentication path of the leaf of key k in the index of n
PathOfKey(n, k) ==
    LET r == RecordIn(store_[n], k)
    IN  [leaf     |-> L(k, r.value, r.timestamp),
         elements |-> PathElements(merkle_tree[n], key_to_index[n][k] + 1)]

\* the keys of a list that the index of n knows, in the order of the list
KnownKeys(n, keys) == SelectSeq(keys, LAMBDA k : k \in DOMAIN key_to_index[n])

\* C23: key and path stay correlated when unknown keys are requested.
\* paths(keys) returns one path per key present in KeyIndex, in input
\* order, and omits unknown keys; and in every k,path entry of a GET_PATHS
\* response the path is the authentication path of the leaf of that same
\* key k.
C23_KeyAndPathCorrelated ==
    last.op = "GET_PATHS" =>
        LET n     == last.node
            known == KnownKeys(n, last.keys)
            paths == get_paths(merkle_tree[n], key_to_index[n], last.keys)
        IN  /\ Len(paths) = Len(known)
            /\ \A i \in 1..Len(known) : paths[i] = PathOfKey(n, known[i])
            /\ last.response.kind = "paths" =>
                  \A i \in 1..Len(last.response.entries) :
                      LET entry == last.response.entries[i]
                      IN  /\ entry.key \in DOMAIN key_to_index[n]
                          /\ entry.path = PathOfKey(n, entry.key)

-----------------------------------------------------------------------------
(* Properties of the cycles whose requests may fail (Spec) *)

\* the labels of run_full_state_anti_entropy before its loops
FullStateLabels == {"full_state", "peer_keys"}

\* C24: any transport or parsing failure during the Merkle part of a cycle,
\* while requesting the peer root or while requesting or parsing the peer
\* paths, aborts the Merkle cycle and causes FullStateExchange to be run
\* before the loop sleeps, and exactly once: the exchange does not start
\* over.  The failures looked at are the first of their cycle.  (A pull of
\* the Merkle part would need a differing key, which find_differences
\* never reports to the cycle.)
C24_MerkleFailureFallsBack ==
    [][\A n \in Nodes :
          /\ (/\ cycle[n] = "clean"
              /\ RequestPeerRoot(n, FALSE) \/ RequestPeerPaths(n, FALSE)) =>
                pc'[n] = "full_state"
          /\ (pc[n] \in FullStateLabels /\ pc'[n] # pc[n]) =>
                pc'[n] \notin {"full_state", "local_root"}]_vars

\* C25: a transport failure during an anti-entropy exchange aborts the
\* current cycle: after the first failed request of a cycle (a failed
\* GET_ALL, GET of one key or PROPAGATE SET) the initiator sends no further
\* request and makes no change to its own store until the next cycle, so
\* the thread goes back to sleep; in particular a failed GET_ALL is not
\* treated as 'the peer has no data'.
C25_FailureAbortsCycle ==
    [][\A n \in Nodes :
          (/\ cycle[n] = "clean"
           /\ \/ FullStatePeerKeys(n, FALSE)
              \/ FetchKey(n, FALSE)
              \/ SendKey(n, FALSE)) =>
                pc'[n] = "sleep"]_vars

-----------------------------------------------------------------------------
(* Properties of the loop whose requests may fail (SpecRestart)            *)

\* C30: the anti-entropy loop never stops because of a failing cycle:
\* whatever error a cycle meets, the error does not escape the thread and
\* after the sleep another cycle starts; cycles start infinitely often.
C30_LoopNeverStops == []<><<LoopCycleStart(Initiator)>>_vars

\* a cycle met a failing request and ended, and the thread sleeps
C30_Witness ==
    /\ cycle[Initiator] = "dirty"
    /\ pc[Initiator] = "sleep"

-----------------------------------------------------------------------------
(* Properties of the full-state exchange of the loop whose requests may    *)
(* fail (SpecLoop)                                                         *)

\* the keys that the list of fetches and sends names with the given kind
Planned(work, kind) ==
    {work[i].key : i \in {j \in 1..Len(work) : work[j].kind = kind}}

\* the timestamp of k in a list of key-timestamp pairs that names k
StampOf(m, k) == m[find(m, k)].timestamp

\* C26: in a full-state exchange with a reachable peer, for every key k:
\* the initiator pulls k (GET k) iff the peer lists k and k is locally
\* missing or its local timestamp is strictly less than the peer's; the
\* initiator pushes k (PROPAGATE SET) iff k is present locally and the peer
\* does not list k or the local timestamp is strictly greater; a key with
\* equal timestamps on both sides is neither pulled nor pushed.
C26_PullAndPushByTimestamp ==
    [][\A n \in Nodes :
          FullStatePeerKeys(n, TRUE) =>
              LET local == ae[n].local_keys
                  peer  == store_[Peer(n)]
                  work  == IF pc'[n] = "work" THEN ae'[n].work ELSE <<>>
              IN  \A k \in Keys :
                      /\ k \in Planned(work, "fetch") <=>
                            /\ contains(peer, k)
                            /\ \/ ~contains(local, k)
                               \/ StampOf(local, k) < StampOf(peer, k)
                      /\ k \in Planned(work, "send") <=>
                            /\ contains(local, k)
                            /\ \/ ~contains(peer, k)
                               \/ StampOf(local, k) > StampOf(peer, k)
                      /\ (/\ contains(local, k)
                          /\ contains(peer, k)
                          /\ StampOf(local, k) = StampOf(peer, k)) =>
                            k \notin Planned(work, "fetch") \cup Planned(work, "send")]_vars

\* the comparison of two stores that both hold two keys has planned only the
\* push of the key that is newer locally: the other key has equal
\* timestamps
C26_Witness ==
    /\ pc[Initiator] = "work"
    /\ \E k \in Keys : \E e \in Keys \ {k} :
          LET local == store_[Initiator]
              peer  == store_[Peer(Initiator)]
          IN  /\ ae[Initiator].work = <<Send(k)>>
              /\ keys_of(local) = Keys
              /\ keys_of(peer) = Keys
              /\ StampOf(local, k) > StampOf(peer, k)
              /\ StampOf(local, e) = StampOf(peer, e)

\* where the thread is while run_merkle_anti_entropy has not fallen back
MerkleLabels ==
    {"local_root", "peer_root", "local_keys", "peer_paths", "find_differences"}

\* the step leaves the store and the index of n as they are
Untouched(n) ==
    /\ store_'[n] = store_[n]
    /\ merkle_tree'[n] = merkle_tree[n]
    /\ key_to_index'[n] = key_to_index[n]

\* C27: a Merkle cycle that does not fall back to the full-state exchange
\* is pull-only: the initiator sends only GET_MERKLE_ROOT, GET_PATHS and GET
\* requests, never a PROPAGATE, and the peer's store and index are unchanged
\* by the cycle.  Every step of the Merkle exchange leaves the peer
\* untouched and plans nothing but fetches, and a fetch leaves the peer
\* untouched.
C27_MerkleCyclePullOnly ==
    [][\A n \in Nodes :
          /\ (pc[n] \in MerkleLabels /\ pc'[n] # pc[n]) =>
                /\ Untouched(Peer(n))
                /\ tasks' = tasks
                /\ pc'[n] \in MerkleLabels \cup {"sleep", "full_state", "work"}
                /\ pc'[n] = "work" => Planned(ae'[n].work, "send") = {}
          /\ (\E ok \in BOOLEAN : FetchKey(n, ok)) \/ UpdateKey(n) =>
                Untouched(Peer(n)) /\ tasks' = tasks]_vars

\* a Merkle cycle between two stores whose roots differ has run to its end
\* with every request answered
C27_Witness ==
    /\ pc[Initiator] = "sleep"
    /\ cycle[Initiator] = "clean"
    /\ ~empty(merkle_tree[Initiator])
    /\ ~empty(merkle_tree[Peer(Initiator)])
    /\ to_string(get_root_hash(merkle_tree[Initiator]))
          # to_string(get_root_hash(merkle_tree[Peer(Initiator)]))

-----------------------------------------------------------------------------
(* Properties of the readers of an index under rebuild (SpecRebuild)       *)

\* the tree and the key index are those that rebuild(kv_data) leaves
BuiltFrom(tree, kti, kv_data) ==
    /\ tree = rebuild_tree(kv_data)
    /\ kti = rebuild_key_to_index(kv_data)

\* C28: index readers that run concurrently with a rebuild (root, paths,
\* find_differences, size, empty, called while a write is rebuilding) never
\* observe a partially rebuilt index: the tree and the key index they see
\* both belong to the same snapshot, the one before or the one after the
\* rebuild.  What a reader finds is what the last rebuild that returned
\* built; that is the index of the store itself unless a write is under
\* way.
C28_ReadersSeeWholeIndex ==
    last.op \in IndexReads =>
        /\ BuiltFrom(last.tree, last.key_to_index, last.built)
        /\ ~last.writing => last.built = get_all_key_value_data(last.store)

\* a reader has run while a write held mutex_ and had not finished its
\* rebuild: the store has changed and the reader found the index of the
\* store before the write
C28_Witness ==
    /\ last.op \in IndexReads
    /\ last.writing
    /\ last.built # get_all_key_value_data(last.store)
    /\ last.tree # <<>>
    /\ rebuilding[StoreNode].at \in {"insert", "assign"}

-----------------------------------------------------------------------------
(* Properties of the connections (SpecSession)                             *)

\* C29: each connection carries exactly one request: a server session reads
\* one request, dispatches it once, writes one response and never reads
\* again, and the anti-entropy initiator opens a new connection for every
\* request it issues, so every request of a cycle is dispatched and
\* answered.  On a connection the session has dispatched at most one
\* request, the initiator has written at most one, and once the session has
\* ended every request written was dispatched.
C29_OneRequestPerConnection ==
    \A n \in Nodes :
        LET s == ae[n].socket
        IN  /\ Len(s.dispatched) <= 1
            /\ Len(s.written) <= 1
            /\ s.session = "closed" => s.dispatched = s.written

-----------------------------------------------------------------------------
(* Properties of the endless loops between stores that hold the same keys  *)
(* (SpecConverge)                                                          *)

\* both nodes report the same Merkle root
RootsAgree ==
    to_string(get_root_hash(merkle_tree["A"]))
        = to_string(get_root_hash(merkle_tree["B"]))

\* the stores the threads found hold the same keys
FoundSameKeys == keys_of(FoundStores["A"]) = keys_of(FoundStores["B"])

\* C31: anti-entropy reaches quiescence: starting from two reachable nodes
\* that hold the same keys with different values or timestamps, and with no
\* further client writes, repeated cycles eventually reach a state where
\* both nodes report equal Merkle roots, and the roots stay equal.
C31_Quiescence == FoundSameKeys => <>[]RootsAgree

-----------------------------------------------------------------------------
(* Properties of the handling of a propagated write (SpecPropagate)        *)

\* the peer of the writer has received and applied the one write
PropagatedOnce ==
    /\ writes = 1
    /\ tasks = {}
    /\ store_["A"] # <<>>
    /\ store_["B"] # <<>>

\* C32: a write received as PROPAGATE SET or PROPAGATE DEL is applied to the
\* local store and never propagated again: the delivery of a propagation
\* message ends its thread and starts no other, so the peers exchange at
\* most one message per client write
C32_NoRepropagation ==
    [][\A task \in tasks :
          PropagateAttempt(task, TRUE) =>
              /\ task.command[1] = Str("PROPAGATE")
              /\ tasks' = tasks \ {task}
              /\ store_'[Peer(task.from)]
                     = process_command(Peer(task.from), task.command, now).store]_vars

C32_Witness == PropagatedOnce

-----------------------------------------------------------------------------
(* Properties of deletion in the store (SpecStore)                         *)

\* C33: deletion keeps no tombstone: an accepted del(k, t) leaves the key
\* absent, and the set(k, v, t') called next is accepted whatever t' is,
\* smaller than t included, and restores the key with value v and
\* timestamp t'
C33_NoTombstone ==
    [][/\ (IsCall("del") /\ last'.accepted) =>
             last'.key \notin keys_of(store_'[StoreNode])
       /\ (IsCall("set") /\ last'.deleted_at # {}) =>
             /\ last'.key \notin keys_of(store_[StoreNode])
             /\ last'.accepted
             /\ HoldsExactly(store_'[StoreNode], last'.key, last'.value,
                             last'.timestamp)
    ]_vars

\* a set has restored a key with a timestamp below the one of its deletion
C33_Witness ==
    /\ last.op = "set"
    /\ last.accepted
    /\ \E t \in last.deleted_at : last.timestamp < t
    /\ HoldsExactly(store_[StoreNode], last.key, last.value, last.timestamp)

-----------------------------------------------------------------------------
(* Properties of the key sets under anti-entropy (SpecKeys)                *)

\* clients of both nodes, the propagation threads, the clock and the
\* cycles of the initiator's anti-entropy thread
NextKeys ==
    \/ \E n \in Nodes, command \in ClientCommands : ClientCommand(n, command)
    \/ \E task \in tasks, ok \in BOOLEAN : PropagateAttempt(task, ok)
    \/ Tick
    \/ CycleStart(Initiator)
    \/ LocalRoot(Initiator)
    \/ \E ok \in BOOLEAN : RequestPeerRoot(Initiator, ok)
    \/ LocalKeys(Initiator)
    \/ \E ok \in BOOLEAN : RequestPeerPaths(Initiator, ok)
    \/ FindDiff(Initiator)
    \/ FullStateLocalKeys(Initiator)
    \/ \E ok \in BOOLEAN : FullStatePeerKeys(Initiator, ok)
    \/ \E ok \in BOOLEAN : FetchKey(Initiator, ok)
    \/ UpdateKey(Initiator)
    \/ \E ok \in BOOLEAN : SendKey(Initiator, ok)

SpecKeys == InitNode /\ [][NextKeys]_vars

\* node x holds key k before the step and not after it
Leaves(x, k) ==
    /\ k \in keys_of(store_[x])
    /\ k \notin keys_of(store_'[x])

\* the step is a session of x that serves a client's DEL of k
ClientDel(x, k) == ClientCommand(x, <<Str("DEL"), k>>)

\* the step delivers a PROPAGATE DEL of k to x
PropagatedDel(x, k) ==
    \E task \in tasks :
        /\ task.from = Peer(x)
        /\ task.command[2] = Str("DEL")
        /\ task.command[3] = k
        /\ PropagateAttempt(task, TRUE)

\* C34: no anti-entropy step removes a key: the key set of a store only
\* grows or stays the same in the steps of a Merkle cycle and of a
\* FullStateExchange, and a key leaves a store only in a step that serves
\* a client's DEL or delivers a PROPAGATE DEL
C34_AntiEntropyKeepsKeys ==
    [][\A x \in Nodes, k \in Keys :
          Leaves(x, k) => ClientDel(x, k) \/ PropagatedDel(x, k)]_vars

\* a cycle of x has pulled a key the peer's client wrote: only a pull stamps
\* a record with the millisecond after the current one
C34_Witness ==
    \E x \in Nodes :
        /\ pc[x] = "work" \/ pc[x] = "sleep"
        /\ \E i \in 1..Len(store_[x]) : store_[x][i].timestamp = now + 1
        /\ keys_of(store_[x]) \subseteq keys_of(store_[Peer(x)])

-----------------------------------------------------------------------------
(* Properties of the timestamps in the store (SpecStore)                   *)

\* the timestamp store m holds for key k
StoredTimestamp(m, k) == RecordIn(m, k).timestamp

\* C35: per-key timestamps are monotonic: whichever thread calls whichever
\* operation, the timestamp stored for a key that is present before and
\* after the call does not decrease
C35_TimestampsMonotonic ==
    [][\A n \in Nodes, k \in Keys :
          (k \in keys_of(store_[n]) /\ k \in keys_of(store_'[n])) =>
              StoredTimestamp(store_'[n], k) >= StoredTimestamp(store_[n], k)]_vars

\* a set has replaced a record by one with a greater timestamp: the tree,
\* not yet rebuilt, still holds the leaf of the older record
C35_Witness ==
    /\ last.op = "set"
    /\ last.accepted
    /\ mutex_[StoreNode] # "free"
    /\ StoredTimestamp(store_[StoreNode], last.key) = last.timestamp
    /\ \E v \in Values, t \in Times, i \in 1..Len(merkle_tree[StoreNode]) :
          /\ t < last.timestamp
          /\ merkle_tree[StoreNode][i] = L(last.key, v, t)

-----------------------------------------------------------------------------
(* The two mutexes of a node: the calls that take them, lock by lock       *)
(* (SpecLocks)                                                             *)

\* std::lock_guard<std::recursive_mutex> lock(mutex_) returns at once for
\* thread thr: the mutex is free or thr owns it
CanLock(n, thr) == mutex_[n] = "free" \/ mutex_[n] = thr

\* a thread is inside a reading call of the index and holds tree_mutex
Reading(n) == tree_mutex[n] # "free" /\ rebuilding[n].at = "idle"

\* thread thr, which holds neither mutex, enters a reading function of the
\* index and takes tree_mutex
ReadLock(n, thr, call) ==
    /\ merkle_index[n]
    /\ thr # mutex_[n]
    /\ tree_mutex[n] = "free"
    /\ tree_mutex' = [tree_mutex EXCEPT ![n] = thr]
    /\ last' = Found(n, thr, call)
    /\ UNCHANGED <<store_, mutex_, merkle_index, merkle_tree, key_to_index,
                   rebuilding>>
    /\ UNCHANGED sysVars

\* a reading function that calls back into the store before it returns
ReadReturn_asks_store(n) ==
    /\ Reading(n)
    /\ CanLock(n, tree_mutex[n])
    /\ tree_mutex' = [tree_mutex EXCEPT ![n] = "free"]
    /\ UNCHANGED <<store_, mutex_, merkle_index, merkle_tree, key_to_index,
                   rebuilding, last>>
    /\ UNCHANGED sysVars

\* the reading function returns: its lock_guard releases tree_mutex
ReadReturn(n) ==
    /\ Reading(n)
    /\ tree_mutex' = [tree_mutex EXCEPT ![n] = "free"]
    /\ UNCHANGED <<store_, mutex_, merkle_index, merkle_tree, key_to_index,
                   rebuilding, last>>
    /\ UNCHANGED sysVars

\* key_to_index.clear() of MerkleTreeIndex::rebuild(const KeyValueStore&),
\* which goes on to ask the store for its keys
ClearKeysCpp(n) ==
    /\ rebuilding[n].at = "clear_index"
    /\ key_to_index' = [key_to_index EXCEPT ![n] = <<>>]
    /\ rebuilding' = [rebuilding EXCEPT ![n].at = "get_all_keys"]
    /\ UNCHANGED <<store_, mutex_, merkle_index, merkle_tree, tree_mutex, last>>
    /\ UNCHANGED sysVars

\* the loop of rebuild(const KeyValueStore&) goes on with the next key, or
\* ends
NextKey(r, index) ==
    [r EXCEPT !.at = IF index < Len(r.kv_data) THEN "get_value" ELSE "unlock",
              !.index = index]

\* store.get_all_keys_with_timestamps() called under tree_mutex: the store
\* locks its recursive mutex_, which the caller of rebuild owns; all_keys
\* are the keys and timestamps of kv_data
GetAllKeys(n) ==
    /\ rebuilding[n].at = "get_all_keys"
    /\ CanLock(n, tree_mutex[n])
    /\ rebuilding' = [rebuilding EXCEPT ![n] =
          NextKey([@ EXCEPT !.kv_data = get_all_key_value_data(store_[n])], 0)]
    /\ UNCHANGED <<store_, mutex_, merkle_index, merkle_tree, key_to_index,
                   tree_mutex, last>>
    /\ UNCHANGED sysVars

\* store.get_value_with_timestamp(key), which locks mutex_ again, and
\* merkle_tree.insert(hash_key_value(key, value_ts.value, timestamp))
GetValue(n) ==
    /\ rebuilding[n].at = "get_value"
    /\ CanLock(n, tree_mutex[n])
    /\ LET e        == rebuilding[n].kv_data[rebuilding[n].index + 1]
           value_ts == get_value_with_timestamp(store_[n], e.key)
       IN  merkle_tree' = [merkle_tree EXCEPT ![n] =
              Append(@, hash_key_value(e.key, value_ts.value, e.timestamp))]
    /\ rebuilding' = [rebuilding EXCEPT ![n].at = "assign_cpp"]
    /\ UNCHANGED <<store_, mutex_, merkle_index, key_to_index, tree_mutex, last>>
    /\ UNCHANGED sysVars

\* key_to_index[key] = index++ of rebuild(const KeyValueStore&)
AssignIndexCpp(n) ==
    /\ rebuilding[n].at = "assign_cpp"
    /\ LET index == rebuilding[n].index
           key   == rebuilding[n].kv_data[index + 1].key
       IN  /\ key_to_index' = [key_to_index EXCEPT ![n] =
                  [k \in DOMAIN @ \cup {key} |-> IF k = key THEN index ELSE @[k]]]
           /\ rebuilding' = [rebuilding EXCEPT ![n] = NextKey(@, index + 1)]
    /\ UNCHANGED <<store_, mutex_, merkle_index, merkle_tree, tree_mutex, last>>
    /\ UNCHANGED sysVars

\* a step of a thread that holds a mutex of n
HolderStep(n) ==
    \/ RebuildLock(n)
    \/ ClearTree(n)
    \/ ClearKeys(n)
    \/ ClearKeysCpp(n)
    \/ GetAllKeys(n)
    \/ GetValue(n)
    \/ AssignIndexCpp(n)
    \/ InsertLeaf(n)
    \/ AssignIndex(n)
    \/ RebuildReturn(n)
    \/ ReadReturn(n)

NextLocks ==
    \/ \E thr \in Threads \ {tree_mutex[StoreNode]}, k \in Keys, v \in Values, t \in Times :
          Set(StoreNode, thr, k, v, t)
    \/ \E thr \in Threads \ {tree_mutex[StoreNode]}, k \in Keys, t \in Times :
          Del(StoreNode, thr, k, t)
    \/ \E thr \in Threads \ {tree_mutex[StoreNode]} : SetMerkleIndex(StoreNode, thr)
    \/ \E thr \in Threads, call \in IndexReads : ReadLock(StoreNode, thr, call)
    \/ HolderStep(StoreNode)

SpecLocks == Init /\ [][NextLocks]_vars

\* C36: the two locks cannot deadlock: the thread that holds tree_mutex for
\* a rebuild is the one that holds mutex_ and took it first, a thread
\* inside a reading call of the index holds tree_mutex alone, and whenever
\* a mutex is held a thread that holds one can take its next step
C36_NoDeadlock ==
    \A n \in Nodes :
        /\ rebuilding[n].at # "idle" =>
               tree_mutex[n] # "free" /\ tree_mutex[n] = mutex_[n]
        /\ Reading(n) => tree_mutex[n] # mutex_[n]
        /\ (mutex_[n] # "free" \/ tree_mutex[n] # "free") =>
               ENABLED <<HolderStep(n)>>_vars

\* a writer that holds mutex_ waits for tree_mutex, which a reader holds
C36_Witness ==
    /\ mutex_[StoreNode] # "free"
    /\ Reading(StoreNode)
    /\ tree_mutex[StoreNode] # mutex_[StoreNode]
    /\ ~ENABLED <<RebuildLock(StoreNode)>>_vars

====
